---------------------------- MODULE Spec2Model ----------------------------
(***************************************************************************)
(* A model of stock_picker's Picker (src/stock_picker/picker.py): the      *)
(* registry of loaded companies (add_stock_data, the sector and industry   *)
(* indices, discover_stocks_data_from_folder), the null-propagating        *)
(* arithmetic helpers, and the report and filter pipeline.                 *)
(*                                                                         *)
(* Numbers are exact rationals <<numerator, denominator>> in lowest terms  *)
(* with a positive denominator; Python's None is the empty tuple.  Python  *)
(* lists and tuples are both sequences.  A dict is a function on its keys, *)
(* so `key in d` is `key \in DOMAIN d`.                                    *)
(***************************************************************************)
EXTENDS Integers, Sequences, FiniteSets, TLC

VARIABLES
    all_stocks_data,       \* Picker._all_stocks_data: ticker -> stock data
    stocks_by_sectors,     \* Picker._stocks_by_sectors: sector -> list of tickers
    stocks_by_industries,  \* Picker._stocks_by_industries: industry -> list of tickers
    call,                  \* the call that completed last: its arguments and outcome
    prev_call,             \* the call that completed before it
    before,                \* the registry as it was when the last call started
    adds,                  \* number of records and files taken for loading so far
    pc,                    \* "idle", or "discover" inside the loop of discover_stocks_data_from_folder
    folder,                \* the files the glob of the running discover call yields
    file_idx,              \* how many of them the loop has taken
    loaded,                \* discover_stocks_data_from_folder's local `loaded`
    file_count,            \* discover_stocks_data_from_folder's local `file_count`
    discover_before,       \* the registry as it was when the running discover call started
    stock_main_page_urls,  \* scrap_multiple_stocks' argument, the URL list of the running call
    scrapped_pages,        \* per URL, what each of its four page tasks came to
    stock_tasks,           \* per URL, what its async_scrap_stock_data task came to
    finished,              \* the stock tasks that are done, in the order they came to an end
    scrapped_data          \* what scrap_multiple_stocks returned, None before it returns

vars == <<all_stocks_data, stocks_by_sectors, stocks_by_industries, call, prev_call,
          before, adds, pc, folder, file_idx, loaded, file_count, discover_before,
          stock_main_page_urls, scrapped_pages, stock_tasks, finished, scrapped_data>>

\* the state of a scrap_multiple_stocks call
scrapper == <<stock_main_page_urls, scrapped_pages, stock_tasks, finished, scrapped_data>>

registry == <<all_stocks_data, stocks_by_sectors, stocks_by_industries>>

(***************************************************************************)
(* Bounds of the model.                                                    *)
(***************************************************************************)
MaxAdds == 2       \* records and files taken for loading, from the empty registry

(***************************************************************************)
(* Nullable exact numbers.                                                 *)
(***************************************************************************)
Null == <<>>

Abs(n) == IF n < 0 THEN -n ELSE n

RECURSIVE GCD(_, _)
GCD(a, b) == IF b = 0 THEN a ELSE GCD(b, a % b)

\* The rational n/d (d # 0) in lowest terms with a positive denominator.
Rat(n, d) ==
    LET g == GCD(Abs(n), Abs(d))
        s == IF d < 0 THEN -1 ELSE 1
    IN  <<(s * n) \div g, (s * d) \div g>>

Num(n) == <<n, 1>>

IsZero(x) == x[1] = 0
IsNeg(x) == x[1] < 0
RLess(x, y) == x[1] * y[2] < y[1] * x[2]
RLeq(x, y) == x[1] * y[2] <= y[1] * x[2]
RNeg(x) == <<-x[1], x[2]>>
\* sums and products cancel common factors before they multiply
RAdd(x, y) ==
    LET g == GCD(x[2], y[2])
    IN  Rat(x[1] * (y[2] \div g) + y[1] * (x[2] \div g), (x[2] \div g) * y[2])
RSub(x, y) == RAdd(x, RNeg(y))
RMul(x, y) ==
    LET g == GCD(Abs(x[1]), y[2])
        h == GCD(Abs(y[1]), x[2])
    IN  IF x[1] = 0 \/ y[1] = 0 THEN <<0, 1>>
        ELSE <<(x[1] \div g) * (y[1] \div h), (x[2] \div h) * (y[2] \div g)>>
RQuot(x, y) == RMul(x, IF y[1] < 0 THEN <<-y[2], -y[1]>> ELSE <<y[2], y[1]>>)
RAbs(x) == <<Abs(x[1]), x[2]>>

(***************************************************************************)
(* div (picker.py:20-25).                                                  *)
(***************************************************************************)
div_no_sign_guard(item1, item2) ==
    IF item1 = Null \/ item2 = Null THEN Null
    ELSE IF IsZero(item2) THEN Null
    ELSE RQuot(item1, item2)

div(item1, item2) ==
    IF item1 = Null \/ item2 = Null THEN Null
    ELSE IF IsZero(item2) \/ (IsNeg(item1) /\ IsNeg(item2)) THEN Null
    ELSE RQuot(item1, item2)

\* picker.py:28-32: None - x and x - None raise TypeError, which sub turns into None
sub(item1, item2) ==
    IF item1 = Null \/ item2 = Null THEN Null ELSE RSub(item1, item2)

\* picker.py:35-39
add(item1, item2) ==
    IF item1 = Null \/ item2 = Null THEN Null ELSE RAdd(item1, item2)

\* picker.py:42-46
reverse_sign(number) == IF number # Null THEN RNeg(number) ELSE Null

\* picker.py:60-66 with the change taken relative to item1
change_rate_over_item1(item1, item2) ==
    IF item2 # Null /\ IsZero(item2) THEN Null
    ELSE IF item1 = Null \/ item2 = Null \/ IsZero(item1) THEN Null
    ELSE RQuot(RSub(item1, item2), item1)

\* picker.py:60-66: None == 0 is False, and the arithmetic on None raises inside the try
change_rate(item1, item2) ==
    IF item2 # Null /\ IsZero(item2) THEN Null
    ELSE IF item1 = Null \/ item2 = Null THEN Null
    ELSE RQuot(RSub(item1, item2), item2)

\* not a number: np.isnan holds of it, and every comparison with it is False
NaN == <<0, 0, 0, 0>>

\* picker.py:69-72 with the comparison the other way round
check_lt_nonstrict(num1, num2) ==
    num1 # Null /\ num1 # NaN /\ num2 # Null /\ num2 # NaN /\ RLeq(num1, num2)

\* picker.py:69-72; `num1 < nan` is False
check_lt(num1, num2) ==
    num1 # Null /\ num1 # NaN /\ num2 # Null /\ num2 # NaN /\ RLess(num1, num2)

\* picker.py:75-78; `num1 <= nan` is False
check_lte(num1, num2) ==
    num1 # Null /\ num1 # NaN /\ num2 # Null /\ num2 # NaN /\ RLeq(num1, num2)

\* Python's truth value of a number or None: `if x` holds for a number other than 0
Truthy(x) == x # Null /\ ~IsZero(x)

(***************************************************************************)
(* Reductions of a list of numbers: np.average, and np.std and np.corrcoef *)
(* kept exact.  The standard deviation s is the 1-tuple <<s^2>>; a         *)
(* correlation r is the 3-tuple <<sign of r, n, d>> with r^2 = n/d.        *)
(***************************************************************************)
RECURSIVE RSum(_)
RSum(arr) == IF arr = <<>> THEN <<0, 1>> ELSE RAdd(Head(arr), RSum(Tail(arr)))

\* np.average of a non-empty list
average(arr) == RQuot(RSum(arr), Num(Len(arr)))

\* sum of (x - mean x)(y - mean y) over two lists of one length
CoMoment(xs, ys) ==
    LET mx == average(xs)
        my == average(ys)
    IN  RSum([i \in 1..Len(xs) |-> RMul(RSub(xs[i], mx), RSub(ys[i], my))])

\* np.std of a non-empty list (population standard deviation), as <<variance>>
std(arr) == <<RQuot(CoMoment(arr, arr), Num(Len(arr)))>>

\* the correlation of two lists from their co-moment cov and their own moments vx, vy
correlation(cov, vx, vy) ==
    LET r2 == RQuot(RMul(cov, cov), RMul(vx, vy))
    IN  IF IsZero(vx) \/ IsZero(vy) THEN NaN
        ELSE <<IF IsNeg(cov) THEN -1 ELSE IF IsZero(cov) THEN 0 ELSE 1, r2[1], r2[2]>>

\* np.corrcoef(xs, ys)[0, 1]; a constant list gives nan
corrcoef(xs, ys) == correlation(CoMoment(xs, ys), CoMoment(xs, xs), CoMoment(ys, ys))

\* func(arr) for the two reductions the picker hands to apply_f_excl_none
reduce(func, arr) == IF func = "average" THEN average(arr) ELSE std(arr)

\* picker.py:12-17 with None counted as 0
apply_f_none_as_zero(func, array) ==
    IF array = <<>> THEN Null
    ELSE reduce(func, [i \in 1..Len(array) |-> IF array[i] = Null THEN Num(0) ELSE array[i]])

\* picker.py:12-17; the lists it is given hold numbers and None, no NaN
apply_f_excl_none(func, array) ==
    LET present(item) == item # Null
        array_excl_none == SelectSeq(array, present)
    IN  IF array_excl_none = <<>> THEN Null ELSE reduce(func, array_excl_none)

\* picker.py:81-86 without np.flip
unflipped_linear_corrcoef(arr, n_data_points) ==
    LET present(item) == item # Null
        arr_excl_none == SelectSeq(arr, present)
    IN  IF Len(arr_excl_none) < n_data_points THEN Null
        ELSE corrcoef(SubSeq(arr_excl_none, 1, n_data_points),
                      [i \in 1..n_data_points |-> Num(i - 1)])

\* picker.py:81-86
flipped_linear_corrcoef(arr, n_data_points) ==
    LET present(item) == item # Null
        arr_excl_none == SelectSeq(arr, present)
        flipped_arr == [i \in 1..n_data_points |-> arr_excl_none[n_data_points + 1 - i]]
    IN  IF Len(arr_excl_none) < n_data_points THEN Null
        ELSE corrcoef(flipped_arr, [i \in 1..n_data_points |-> Num(i - 1)])


(***************************************************************************)
(* Program constants.                                                      *)
(***************************************************************************)
MinYearPoints == 10    \* picker.py:200, `len(req_field_data['years']) < 10`

\* Picker.required_info, in the order the loop of add_stock_data takes it
required_info == <<"cash_flow_statement", "income_statement", "balance_sheet", "price">>

\* The order in which a statement's dict yields its keys (insertion order).
FieldOrder ==
    <<"revenue", "gross_profit", "operating_income", "pre_tax_income", "net_income",
      "total_non_operating_income_expense", "research_and_development_expenses",
      "shares_outstanding", "operating_expenses", "eps_earnings_per_share",
      "cash_on_hand", "share_holder_equity", "goodwill_and_intangible_assets",
      "inventory", "total_current_assets", "total_current_liabilities",
      "total_assets", "total_liabilities",
      "net_income_loss", "cash_flow_from_operating_activities",
      "total_common_and_preferred_stock_dividends_paid", "net_cash_flow",
      "debt_issuance_retirement_net_total", "net_total_equity_issued_repurchased",
      "year_close", "average_stock_price">>

(***************************************************************************)
(* The year sort of add_stock_data (picker.py:202-208).                    *)
(***************************************************************************)
SetMin(S) == CHOOSE x \in S : \A y \in S : x <= y

\* picker.py:203: 'years' first, then the statement's other keys in dict order
ordered_fields(req_field_data) ==
    LET present(f) == f \in DOMAIN req_field_data
    IN  <<"years">> \o SelectSeq(FieldOrder, present)

\* picker.py:204: zip stops at the shortest of the field arrays
zipped(req_field_data) ==
    LET of == ordered_fields(req_field_data)
        n  == SetMin({Len(req_field_data[of[k]]) : k \in 1..Len(of)})
    IN  [i \in 1..n |-> [k \in 1..Len(of) |-> req_field_data[of[k]][i]]]

\* Python's tuple comparison: the first position at which two rows differ (0: equal rows)
FirstDiff(a, b) ==
    IF a[1] # b[1] THEN 1
    ELSE LET D == {k \in 1..Len(a) : a[k] # b[k]}
         IN  IF D = {} THEN 0 ELSE SetMin(D)

\* a < b raises TypeError when the deciding cells are None and a number.
\* Position 1 is the year, an integer; the other cells are nullable numbers.
Incomparable(a, b) ==
    LET k == FirstDiff(a, b)
    IN  k > 1 /\ (a[k] = Null \/ b[k] = Null)

RowLess(a, b) ==
    LET k == FirstDiff(a, b)
    IN  IF k = 0 THEN FALSE
        ELSE IF k = 1 THEN a[1] < b[1]
        ELSE RLess(a[k], b[k])

RECURSIVE InsertDesc(_, _)
InsertDesc(r, s) ==
    IF s = <<>> THEN <<r>>
    ELSE IF RowLess(Head(s), r) THEN <<r>> \o s
    ELSE <<Head(s)>> \o InsertDesc(r, Tail(s))

RECURSIVE SortDesc(_)
SortDesc(rows) ==
    IF rows = <<>> THEN <<>> ELSE InsertDesc(Head(rows), SortDesc(Tail(rows)))

Reversed(rows) == [i \in 1..Len(rows) |-> rows[Len(rows) + 1 - i]]

\* a slip the sort could have: the rows only reversed, taking the input for ascending
sorted_reverse_by_flipping(rows) == Reversed(rows)

\* picker.py:205: sorted(zipped, reverse=True)
sorted_reverse(rows) == SortDesc(rows)

\* the sort raises when it has to order two rows that Python cannot compare
sort_raises(req_field_data) ==
    LET rows == zipped(req_field_data)
    IN  \E i, j \in 1..Len(rows) : i < j /\ Incomparable(rows[i], rows[j])

\* a slip the sort could have: the years put in order and the other fields left in place
sort_years_only(req_field_data) ==
    LET rows == sorted_reverse(zipped(req_field_data))
    IN  IF rows = <<>> THEN req_field_data
        ELSE [req_field_data EXCEPT !["years"] = [i \in 1..Len(rows) |-> rows[i][1]]]

\* picker.py:203-206: the statement after the in-place sort.  With no row
\* (some field array is empty) zip(*[]) yields nothing and no field is reassigned.
sort_statement(req_field_data) ==
    LET of   == ordered_fields(req_field_data)
        rows == sorted_reverse(zipped(req_field_data))
        col(f) == CHOOSE k \in 1..Len(of) : of[k] = f
    IN  IF rows = <<>> THEN req_field_data
        ELSE [f \in DOMAIN req_field_data |->
                IF \E k \in 1..Len(of) : of[k] = f
                THEN [i \in 1..Len(rows) |-> rows[i][col(f)]]
                ELSE req_field_data[f]]

(***************************************************************************)
(* add_stock_data (picker.py:189-218).                                     *)
(***************************************************************************)
too_few_points_5(req_field_data) == Len(req_field_data["years"]) < 5

\* picker.py:200
too_few_points(req_field_data) == Len(req_field_data["years"]) < MinYearPoints

\* What the loop body does for one required statement: "ok", or the exception it raises
statement_error(stock_data, req_field) ==
    IF req_field \notin DOMAIN stock_data THEN "ValueError: not in data"
    ELSE IF "years" \notin DOMAIN stock_data[req_field] THEN "KeyError: years"
    ELSE IF too_few_points(stock_data[req_field]) THEN "ValueError: less than 5 data points"
    ELSE IF sort_raises(stock_data[req_field]) THEN "ValueError: fail to sort"
    ELSE "ok"

\* index in required_info of the first statement that raises; 0 when none does
first_failure(stock_data) ==
    LET bad == {k \in 1..Len(required_info) :
                    statement_error(stock_data, required_info[k]) # "ok"}
    IN  IF bad = {} THEN 0 ELSE SetMin(bad)

\* stock_data once the loop has sorted its first n required statements in place
sorted_upto(stock_data, n) ==
    [key \in DOMAIN stock_data |->
        IF \E k \in 1..n : required_info[k] = key
        THEN sort_statement(stock_data[key])
        ELSE stock_data[key]]

\* the argument as the call leaves it: wholly sorted, or sorted up to the failure
argument_after(stock_data) ==
    LET failed == first_failure(stock_data)
    IN  IF failed = 0 THEN sorted_upto(stock_data, Len(required_info))
        ELSE sorted_upto(stock_data, failed - 1)

\* picker.py:168-178, add_ticker_to_sector and add_ticker_to_industry
add_ticker_to_group(index, group, ticker) ==
    IF group \notin DOMAIN index
    THEN (group :> <<ticker>>) @@ index
    ELSE [index EXCEPT ![group] = Append(@, ticker)]

\* picker.py:210
store(stocks, stock_ticker, stock_data) == (stock_ticker :> stock_data) @@ stocks

\* picker.py:211-218
index_after(index, key, stock_ticker, stock_data) ==
    IF key \in DOMAIN stock_data
    THEN add_ticker_to_group(index, stock_data[key], stock_ticker)
    ELSE index

\* picker.py:196-208, the loop over required_info: what it raises ("ok": nothing)
\* and the argument as it leaves it
validate_and_sort(stock_data) ==
    LET failed == first_failure(stock_data)
    IN  [raised |-> IF failed = 0 THEN "ok"
                    ELSE statement_error(stock_data, required_info[failed]),
         stock_data |-> argument_after(stock_data)]

\* picker.py:210-218, reached when the loop raised nothing
register(reg, stock_ticker, checked) ==
    IF checked.raised # "ok"
    THEN [raised |-> checked.raised, reg |-> reg]
    ELSE [raised |-> "ok",
          reg |-> <<store(reg[1], stock_ticker, checked.stock_data),
                    index_after(reg[2], "sector", stock_ticker, checked.stock_data),
                    index_after(reg[3], "industry", stock_ticker, checked.stock_data)>>]

\* The registry after add_stock_data(stock_ticker, stock_data) on registry reg,
\* and what the call raised ("ok": it returned).
add_stock_data(reg, stock_ticker, stock_data) ==
    register(reg, stock_ticker, validate_and_sort(stock_data))

(***************************************************************************)
(* discover_stocks_data_from_folder (picker.py:220-230): what the loop     *)
(* does with the file at position idx of n when reading or ingesting it    *)
(* raised.                                                                 *)
(***************************************************************************)
\* a slip the handler could have: the exception ends the loop
stop_at_failed_file(idx, n) == n

\* picker.py:228-229: the exception is logged and the loop goes on
after_failed_file(idx, n) == idx

(***************************************************************************)
(* The records add_stock_data is called with.  A cell's value encodes its  *)
(* field and its year, so a stored cell tells where it came from.          *)
(***************************************************************************)
Tickers == {"AAA", "BBB"}

Without(f, key) == [k \in DOMAIN f \ {key} |-> f[k]]

FieldPos(f) == CHOOSE k \in 1..Len(FieldOrder) : FieldOrder[k] = f

cell(f, y) ==
    IF f = "eps_earnings_per_share" /\ y = 2012 THEN Null
    ELSE Num(100 * FieldPos(f) + (y - 2000))

statement(fields, ys) ==
    [f \in {"years"} \cup fields |->
        IF f = "years" THEN ys ELSE [i \in 1..Len(ys) |-> cell(f, ys[i])]]

years_desc  == [i \in 1..MinYearPoints |-> 2020 - i]
years_asc   == [i \in 1..MinYearPoints |-> 2009 + i]
years_mixed == [i \in 1..MinYearPoints |-> 2010 + ((3 * i) % MinYearPoints)]
years_short == [i \in 1..(MinYearPoints - 1) |-> 2009 + i]
years_tied  == [i \in 1..MinYearPoints |-> IF i = 1 THEN 2011 ELSE 2009 + i]

c_f_fields == {"net_income_loss", "net_cash_flow"}
i_s_fields == {"revenue", "eps_earnings_per_share"}
b_s_fields == {"total_assets", "total_liabilities"}
price_fields == {"year_close", "average_stock_price"}

company(c_f_years, i_s_years, b_s_years, price_years, sector, industry) ==
    [key \in {"cash_flow_statement", "income_statement", "balance_sheet", "price",
              "sector", "industry"} |->
        CASE key = "cash_flow_statement" -> statement(c_f_fields, c_f_years)
          [] key = "income_statement" -> statement(i_s_fields, i_s_years)
          [] key = "balance_sheet" -> statement(b_s_fields, b_s_years)
          [] key = "price" -> statement(price_fields, price_years)
          [] key = "sector" -> sector
          [] key = "industry" -> industry]

sorted_record == company(years_desc, years_desc, years_desc, years_desc, "energy", "oil")
unsorted_record == company(years_asc, years_mixed, years_asc, years_mixed, "finance", "oil")
no_sector_record == Without(company(years_mixed, years_asc, years_desc, years_asc, "energy", "gas"), "sector")
missing_statement_record == Without(sorted_record, "balance_sheet")
short_history_record == [sorted_record EXCEPT !["price"] = statement(price_fields, years_short)]
no_years_record == [sorted_record EXCEPT !["price"] = Without(@, "years")]
short_field_record ==
    [unsorted_record EXCEPT !["income_statement"]["revenue"] = SubSeq(@, 1, Len(@) - 1)]
long_field_record ==
    [unsorted_record EXCEPT !["income_statement"]["revenue"] = Append(@, Num(7))]
empty_field_record ==
    [unsorted_record EXCEPT !["balance_sheet"]["total_assets"] = <<>>]
\* two rows of one year whose first differing cells are numbers: the sort orders them
tied_years_record ==
    [unsorted_record EXCEPT !["cash_flow_statement"] = statement(c_f_fields, years_tied),
                            !["cash_flow_statement"]["net_cash_flow"][1] = Num(5)]
\* two rows of one year whose first differing cells are None and a number
tied_null_record ==
    [unsorted_record EXCEPT !["cash_flow_statement"] = statement(c_f_fields, years_tied),
                            !["cash_flow_statement"]["net_cash_flow"][1] = Null]

InputRecords ==
    <<sorted_record, unsorted_record, no_sector_record, missing_statement_record,
      short_history_record, no_years_record, short_field_record, long_field_record,
      empty_field_record, tied_years_record, tied_null_record>>

\* validate_and_sort of each record, worked out once
Checked == [i \in DOMAIN InputRecords |-> validate_and_sort(InputRecords[i])]

\* A file of the folder: its stem and the record json.load makes of it, by its
\* place in InputRecords (0: json.load raises)
FileContents == {0, 1, 2, 5, 7}

Files == [stem : Tickers, content : FileContents]

\* what a glob can yield: files of distinct names, in any order
Folders ==
    {<<f>> : f \in Files}
        \cup {p \in {<<f, g>> : f \in Files, g \in Files} : p[1].stem # p[2].stem}

(***************************************************************************)
(* The registry's operations as actions.                                   *)
(***************************************************************************)
NoCall == [op |-> "none"]
EmptyRegistry == <<<<>>, <<>>, <<>>>>

\* no scrap_multiple_stocks call was made
NoScrap ==
    /\ stock_main_page_urls = <<>>
    /\ scrapped_pages = <<>>
    /\ stock_tasks = <<>>
    /\ finished = <<>>
    /\ scrapped_data = Null

Init ==
    /\ all_stocks_data = <<>>
    /\ stocks_by_sectors = <<>>
    /\ stocks_by_industries = <<>>
    /\ call = NoCall
    /\ prev_call = NoCall
    /\ before = EmptyRegistry
    /\ discover_before = EmptyRegistry
    /\ adds = 0
    /\ pc = "idle"
    /\ folder = <<>>
    /\ file_idx = 0
    /\ loaded = 0
    /\ file_count = 0
    /\ NoScrap

\* add_stock_data called with a dict that no one else holds, InputRecords[i]
AddStockData(stock_ticker, i) ==
    /\ pc = "idle"
    /\ adds < MaxAdds
    /\ LET r == register(registry, stock_ticker, Checked[i])
       IN  /\ all_stocks_data' = r.reg[1]
           /\ stocks_by_sectors' = r.reg[2]
           /\ stocks_by_industries' = r.reg[3]
           /\ call' = [op |-> "add_stock_data", stock_ticker |-> stock_ticker,
                       stock_data |-> InputRecords[i], raised |-> r.raised]
    /\ prev_call' = call
    /\ before' = registry
    /\ adds' = adds + 1
    /\ UNCHANGED scrapper
    /\ UNCHANGED <<pc, folder, file_idx, loaded, file_count, discover_before>>

\* add_stock_data called with the very dict the registry holds under ticker src:
\* the in-place sort of the argument is a write to the stored record
ReloadStockData(stock_ticker, src) ==
    /\ pc = "idle"
    /\ adds < MaxAdds
    /\ src \in DOMAIN all_stocks_data
    /\ LET stock_data == all_stocks_data[src]
           aliased == [all_stocks_data EXCEPT ![src] = argument_after(stock_data)]
           r == add_stock_data(<<aliased, stocks_by_sectors, stocks_by_industries>>,
                               stock_ticker, stock_data)
       IN  /\ all_stocks_data' = r.reg[1]
           /\ stocks_by_sectors' = r.reg[2]
           /\ stocks_by_industries' = r.reg[3]
           /\ call' = [op |-> "add_stock_data", stock_ticker |-> stock_ticker,
                       stock_data |-> stock_data, raised |-> r.raised]
    /\ prev_call' = call
    /\ before' = registry
    /\ adds' = adds + 1
    /\ UNCHANGED scrapper
    /\ UNCHANGED <<pc, folder, file_idx, loaded, file_count, discover_before>>

\* picker.py:221-222
DiscoverStart(files) ==
    /\ pc = "idle"
    /\ adds + Len(files) <= MaxAdds
    /\ pc' = "discover"
    /\ folder' = files
    /\ file_idx' = 0
    /\ loaded' = 0
    /\ file_count' = 0
    /\ discover_before' = registry
    /\ UNCHANGED scrapper
    /\ UNCHANGED <<all_stocks_data, stocks_by_sectors, stocks_by_industries, call,
                   prev_call, before, adds>>

\* picker.py:223-229, one turn of the loop
DiscoverFile ==
    /\ pc = "discover"
    /\ file_idx < Len(folder)
    /\ LET file == folder[file_idx + 1]
       IN  IF file.content = 0
           THEN /\ file_idx' = after_failed_file(file_idx + 1, Len(folder))
                /\ adds' = adds + 1
                /\ UNCHANGED <<all_stocks_data, stocks_by_sectors, stocks_by_industries,
                               call, prev_call, before, loaded>>
           ELSE LET r == register(registry, file.stem, Checked[file.content])
                IN  /\ all_stocks_data' = r.reg[1]
                    /\ stocks_by_sectors' = r.reg[2]
                    /\ stocks_by_industries' = r.reg[3]
                    /\ call' = [op |-> "add_stock_data", stock_ticker |-> file.stem,
                                stock_data |-> InputRecords[file.content], raised |-> r.raised]
                    /\ prev_call' = call
                    /\ before' = registry
                    /\ adds' = adds + 1
                    /\ loaded' = IF r.raised = "ok" THEN loaded + 1 ELSE loaded
                    /\ file_idx' = IF r.raised = "ok" THEN file_idx + 1
                                   ELSE after_failed_file(file_idx + 1, Len(folder))
    /\ file_count' = file_count + 1
    /\ UNCHANGED scrapper
    /\ UNCHANGED <<pc, folder, discover_before>>

\* picker.py:230
DiscoverDone ==
    /\ pc = "discover"
    /\ file_idx = Len(folder)
    /\ pc' = "idle"
    /\ call' = [op |-> "discover_stocks_data_from_folder", folder |-> folder,
                loaded |-> loaded, file_count |-> file_count]
    /\ prev_call' = call
    /\ UNCHANGED scrapper
    /\ UNCHANGED <<all_stocks_data, stocks_by_sectors, stocks_by_industries, before,
                   adds, folder, file_idx, loaded, file_count, discover_before>>

Next ==
    \/ \E t \in Tickers, i \in DOMAIN InputRecords : AddStockData(t, i)
    \/ \E t \in Tickers, src \in Tickers : ReloadStockData(t, src)
    \/ \E files \in Folders : DiscoverStart(files)
    \/ DiscoverFile
    \/ DiscoverDone

Spec == Init /\ [][Next]_vars

(***************************************************************************)
(* The period aggregates (picker.py:96-154, 232-247).                      *)
(***************************************************************************)
default_period == <<0, 4>>     \* picker.py:96

\* Picker.report_by_period_schema: each field with its periods (<<>>: no entry, None)
income_statement_schema ==
    <<[fld |-> "revenue", periods |-> <<<<0, 4>>, <<5, 9>>>>],
      [fld |-> "gross_profit", periods |-> <<>>],
      [fld |-> "operating_income", periods |-> <<>>],
      [fld |-> "pre_tax_income", periods |-> <<>>],
      [fld |-> "net_income", periods |-> <<>>],
      [fld |-> "total_non_operating_income_expense", periods |-> <<>>],
      [fld |-> "research_and_development_expenses", periods |-> <<>>],
      [fld |-> "shares_outstanding", periods |-> <<>>],
      [fld |-> "operating_expenses", periods |-> <<>>],
      [fld |-> "eps_earnings_per_share", periods |-> <<<<0, 4>>, <<5, 9>>, <<10, 14>>>>]>>

balance_sheet_schema ==
    <<[fld |-> "cash_on_hand", periods |-> <<>>],
      [fld |-> "share_holder_equity", periods |-> <<>>],
      [fld |-> "goodwill_and_intangible_assets", periods |-> <<>>],
      [fld |-> "inventory", periods |-> <<>>],
      [fld |-> "total_current_assets", periods |-> <<<<0, 4>>, <<5, 9>>>>],
      [fld |-> "total_current_liabilities", periods |-> <<<<0, 4>>, <<5, 9>>>>],
      [fld |-> "total_assets", periods |-> <<<<0, 4>>, <<5, 9>>>>],
      [fld |-> "total_liabilities", periods |-> <<<<0, 4>>, <<5, 9>>>>]>>

cash_flow_statement_schema ==
    <<[fld |-> "net_income_loss", periods |-> <<>>],
      [fld |-> "cash_flow_from_operating_activities", periods |-> <<>>],
      [fld |-> "total_common_and_preferred_stock_dividends_paid", periods |-> <<>>],
      [fld |-> "net_cash_flow", periods |-> <<>>],
      [fld |-> "debt_issuance_retirement_net_total", periods |-> <<>>],
      [fld |-> "net_total_equity_issued_repurchased", periods |-> <<>>]>>

price_schema ==
    <<[fld |-> "average_stock_price", periods |-> <<<<0, 4>>, <<5, 9>>>>]>>

\* picker.py:233-234, with np.average's __name__
report_field_name(fld, per) ==
    "average_" \o fld \o "_prev_" \o ToString(per[1]) \o "_" \o ToString(per[2]) \o "_y"

\* Python's arr[per[0]:per[1]]
Slice(arr, per) ==
    SubSeq(arr, per[1] + 1, IF per[2] < Len(arr) THEN per[2] ELSE Len(arr))

\* picker.py:232-247
create_report_by_period(data, schema) ==
    LET periods_of(k) ==
            IF schema[k].periods = <<>> THEN {default_period}
            ELSE {schema[k].periods[j] : j \in 1..Len(schema[k].periods)}
        entries == UNION {{<<schema[k].fld, per>> : per \in periods_of(k)} :
                             k \in 1..Len(schema)}
        entry(name) == CHOOSE e \in entries : report_field_name(e[1], e[2]) = name
    IN  [name \in {report_field_name(e[1], e[2]) : e \in entries} |->
            apply_f_excl_none("average", Slice(data[entry(name)[1]], entry(name)[2]))]

\* [div(num[idx], den[idx]) for idx, _ in enumerate(over)]
ratio_series(num, den, over) == [i \in 1..Len(over) |-> div(num[i], den[i])]

(***************************************************************************)
(* generate_income_statement_reports (picker.py:249-305).  `None < 0` at   *)
(* picker.py:285 raises TypeError.                                         *)
(***************************************************************************)
\* picker.py:257-305, base being the report by period of picker.py:255
income_statement_reports(i_s_data, base) ==
    LET revenue == i_s_data["revenue"]
        avg_eps_0_4 == base["average_eps_earnings_per_share_prev_0_4_y"]
        avg_eps_5_9 == base["average_eps_earnings_per_share_prev_5_9_y"]
        avg_eps_10_14 == base["average_eps_earnings_per_share_prev_10_14_y"]
        avg_non_op == base["average_total_non_operating_income_expense_prev_0_4_y"]
        growth_5_9 == change_rate(avg_eps_0_4, avg_eps_5_9)
        period_rep ==
            [corr_coef_revenue_last_5y |-> flipped_linear_corrcoef(revenue, 5),
             corr_coef_eps_last_5y |->
                flipped_linear_corrcoef(i_s_data["eps_earnings_per_share"], 5),
             corr_coef_shares_outstanding_last_5y |->
                flipped_linear_corrcoef(i_s_data["shares_outstanding"], 5),
             corr_coef_op_expenses_margin_last_5y |->
                flipped_linear_corrcoef(ratio_series(i_s_data["operating_expenses"], revenue, i_s_data["operating_expenses"]), 5),
             corr_coef_gross_profit_margin_last_5y |->
                flipped_linear_corrcoef(ratio_series(i_s_data["gross_profit"], revenue, i_s_data["gross_profit"]), 5),
             corr_coef_net_income_margin_last_5y |->
                flipped_linear_corrcoef(ratio_series(i_s_data["net_income"], revenue, i_s_data["net_income"]), 5),
             corr_coef_pre_tax_net_income_margin_last_5y |->
                flipped_linear_corrcoef(ratio_series(i_s_data["pre_tax_income"], revenue, i_s_data["pre_tax_income"]), 5)]
            @@ base
        metrics_rep ==
            [average_op_expenses_margin_prev_0_4_y |->
                div(base["average_operating_expenses_prev_0_4_y"],
                    base["average_revenue_prev_0_4_y"]),
             average_gross_profit_margin_prev_0_4_y |->
                div(base["average_gross_profit_prev_0_4_y"], base["average_revenue_prev_0_4_y"]),
             average_net_income_margin_prev_0_4_y |->
                div(base["average_net_income_prev_0_4_y"], base["average_revenue_prev_0_4_y"]),
             average_pre_tax_net_income_margin_prev_0_4_y |->
                div(base["average_pre_tax_income_prev_0_4_y"],
                    base["average_revenue_prev_0_4_y"]),
             eps_growth_prev_0_4_vs_5_9_y |->
                IF IsNeg(avg_eps_0_4) /\ Truthy(avg_eps_5_9)
                THEN RNeg(growth_5_9) ELSE growth_5_9,
             eps_growth_prev_0_4_vs_10_14_y |-> change_rate(avg_eps_0_4, avg_eps_10_14),
             average_r_and_d_expenses_ratio_prev_0_4_y |->
                div(base["average_research_and_development_expenses_prev_0_4_y"],
                    base["average_operating_expenses_prev_0_4_y"]),
             average_non_op_per_op_expense_prev_0_4_y |->
                IF Truthy(avg_non_op) /\ IsNeg(avg_non_op)
                THEN div(RAbs(avg_non_op), base["average_net_income_prev_0_4_y"])
                ELSE Null]
    IN  IF avg_eps_0_4 = Null
        THEN [raised |-> "TypeError", period_rep |-> <<>>, metrics_rep |-> <<>>]
        ELSE [raised |-> "ok", period_rep |-> period_rep, metrics_rep |-> metrics_rep]

generate_income_statement_reports(i_s_data) ==
    income_statement_reports(i_s_data,
                             create_report_by_period(i_s_data, income_statement_schema))

(***************************************************************************)
(* generate_balance_sheet_reports (picker.py:307-352).                     *)
(***************************************************************************)
\* picker.py:314-352, base being the report by period of picker.py:313
balance_sheet_reports(b_s_data, base) ==
    LET period_rep ==
            [corr_coef_current_assets_liabilities_last_5y |->
                flipped_linear_corrcoef(
                    ratio_series(b_s_data["total_current_assets"], b_s_data["total_current_liabilities"], b_s_data["total_current_liabilities"]), 5),
             corr_coef_total_assets_liabilities_last_5y |->
                flipped_linear_corrcoef(
                    ratio_series(b_s_data["total_assets"], b_s_data["total_liabilities"], b_s_data["total_liabilities"]), 5)]
            @@ base
        metrics_rep ==
            [latest_current_assets_liabilities_ratio |->
                div(b_s_data["total_current_assets"][1], b_s_data["total_current_liabilities"][1]),
             average_current_assets_liabilities_ratio_prev_0_4_y |->
                div(base["average_total_current_assets_prev_0_4_y"],
                    base["average_total_current_liabilities_prev_0_4_y"]),
             average_current_assets_liabilities_ratio_prev_5_9_y |->
                div(base["average_total_current_assets_prev_5_9_y"],
                    base["average_total_current_liabilities_prev_5_9_y"]),
             latest_total_assets_liabilities_ratio |->
                div(b_s_data["total_assets"][1], b_s_data["total_liabilities"][1]),
             average_total_assets_liabilities_ratio_prev_0_4_y |->
                div(base["average_total_assets_prev_0_4_y"],
                    base["average_total_liabilities_prev_0_4_y"]),
             average_total_assets_liabilities_ratio_prev_5_9_y |->
                div(base["average_total_assets_prev_5_9_y"],
                    base["average_total_liabilities_prev_5_9_y"]),
             average_cash_total_liabilities_prev_0_4_y |->
                div(base["average_cash_on_hand_prev_0_4_y"],
                    base["average_total_current_liabilities_prev_0_4_y"]),
             average_inventory_current_assets_ratio_prev_0_4_y |->
                div(base["average_inventory_prev_0_4_y"],
                    base["average_total_current_assets_prev_0_4_y"])]
    IN  [period_rep |-> period_rep, metrics_rep |-> metrics_rep]

generate_balance_sheet_reports(b_s_data) ==
    balance_sheet_reports(b_s_data, create_report_by_period(b_s_data, balance_sheet_schema))

(***************************************************************************)
(* generate_cash_flow_reports (picker.py:354-393).                         *)
(***************************************************************************)
\* picker.py:361-393, base being the report by period of picker.py:360
\* picker.py:369-383 without the condition on the issuance
issuance_per_net_income_unguarded(issuance, net_income) == div(issuance, net_income)

\* picker.py:369-383: div(...) if (issuance and issuance > 0) else None
issuance_per_net_income(issuance, net_income) ==
    IF Truthy(issuance) /\ RLess(Num(0), issuance) THEN div(issuance, net_income) ELSE Null

cash_flow_reports(c_f_data, base) ==
    LET avg_debt == base["average_debt_issuance_retirement_net_total_prev_0_4_y"]
        avg_equity == base["average_net_total_equity_issued_repurchased_prev_0_4_y"]
        avg_income == base["average_net_income_loss_prev_0_4_y"]
        period_rep ==
            [corr_coef_debt_issuance_last_5y |->
                flipped_linear_corrcoef(c_f_data["debt_issuance_retirement_net_total"], 5),
             corr_coef_equity_issued_last_5y |->
                flipped_linear_corrcoef(c_f_data["net_total_equity_issued_repurchased"], 5),
             corr_coef_net_income_per_op_cash_flow |->
                flipped_linear_corrcoef(
                    ratio_series(c_f_data["net_income_loss"], c_f_data["cash_flow_from_operating_activities"], c_f_data["net_income_loss"]), 5)]
            @@ base
        metrics_rep ==
            [average_debt_issuance_per_net_income_prev_0_4_y |->
                issuance_per_net_income(avg_debt, avg_income),
             average_equity_issued_per_net_income_prev_0_4_y |->
                issuance_per_net_income(avg_equity, avg_income),
             latest_dividend_net_income_ratio |->
                div(reverse_sign(c_f_data["total_common_and_preferred_stock_dividends_paid"][1]),
                    c_f_data["net_income_loss"][1]),
             average_dividend_net_income_ratio_prev_0_4_y |->
                div(reverse_sign(
                        base["average_total_common_and_preferred_stock_dividends_paid_prev_0_4_y"]),
                    avg_income)]
    IN  [period_rep |-> period_rep, metrics_rep |-> metrics_rep]

generate_cash_flow_reports(c_f_data) ==
    cash_flow_reports(c_f_data, create_report_by_period(c_f_data, cash_flow_statement_schema))

(***************************************************************************)
(* generate_price_reports (picker.py:395-486).                             *)
(***************************************************************************)
\* picker.py:400
latest_price(price_data) ==
    IF price_data["year_close"] # <<>> THEN price_data["year_close"][1] ELSE Null

\* picker.py:403
latest_eps(i_s_data) == i_s_data["eps_earnings_per_share"][1]

\* picker.py:404
latest_pe(price_data, i_s_data) == div(latest_price(price_data), latest_eps(i_s_data))

\* picker.py:399-486, base being the report by period of picker.py:398
price_reports(price_data, i_s_data, b_s_data, c_f_data, i_s_period_rep, b_s_period_rep, c_f_period_rep, base) ==
    LET price == latest_price(price_data)
        avg_price == base["average_average_stock_price_prev_0_4_y"]
        avg_eps == i_s_period_rep["average_eps_earnings_per_share_prev_0_4_y"]
        avg_shares == i_s_period_rep["average_shares_outstanding_prev_0_4_y"]
        avg_income == i_s_period_rep["average_net_income_prev_0_4_y"]
        shares == i_s_data["shares_outstanding"][1]
        equity == b_s_data["share_holder_equity"][1]
        goodwill == b_s_data["goodwill_and_intangible_assets"][1]
        latest_cash_per_share == div(b_s_data["cash_on_hand"][1], shares)
        average_cash_per_share ==
            div(b_s_period_rep["average_cash_on_hand_prev_0_4_y"], avg_shares)
        average_net_cash_flow_per_share ==
            div(c_f_period_rep["average_net_cash_flow_prev_0_4_y"], avg_shares)
        latest_bv == IF Truthy(goodwill) THEN sub(equity, goodwill) ELSE equity
        latest_bv_per_share == div(latest_bv, shares)
        avg_goodwill == b_s_period_rep["average_goodwill_and_intangible_assets_prev_0_4_y"]
        avg_intangible == IF Truthy(avg_goodwill) THEN avg_goodwill ELSE Num(0)
        average_bv_per_share ==
            div(sub(b_s_period_rep["average_share_holder_equity_prev_0_4_y"], avg_intangible),
                avg_shares)
        latest_dividend_per_share ==
            div(reverse_sign(c_f_data["total_common_and_preferred_stock_dividends_paid"][1]),
                shares)
        capital == [i \in 1..Len(i_s_data["net_income"]) |->
                       sub(b_s_data["total_assets"][i], b_s_data["total_liabilities"][i])]
        period_rep ==
            [corr_coef_ROA_last_5y |->
                flipped_linear_corrcoef(
                    ratio_series(i_s_data["net_income"], b_s_data["total_assets"],
                                 b_s_data["total_assets"]), 5),
             corr_coef_ROE_last_5y |->
                flipped_linear_corrcoef(
                    ratio_series(i_s_data["net_income"], b_s_data["share_holder_equity"],
                                 b_s_data["share_holder_equity"]), 5),
             corr_coef_ROEC_last_5y |->
                flipped_linear_corrcoef(
                    ratio_series(i_s_data["net_income"], capital, i_s_data["net_income"]), 5)]
            @@ base
        metrics_rep ==
            [latest_price |-> price,
             latest_eps |-> latest_eps(i_s_data),
             latest_pe |-> latest_pe(price_data, i_s_data),
             average_eps_prev_0_4_y |-> avg_eps,
             latest_p_average_e_prev_0_4_y |-> div(price, avg_eps),
             average_pe_prev_0_4_y |-> div(avg_price, avg_eps),
             average_pe_prev_5_9_y |->
                div(base["average_average_stock_price_prev_5_9_y"],
                    i_s_period_rep["average_eps_earnings_per_share_prev_5_9_y"]),
             latest_cash_per_share |-> latest_cash_per_share,
             latest_p_cash |-> div(price, latest_cash_per_share),
             average_cash_per_share_prev_0_4_y |-> average_cash_per_share,
             latest_p_average_cash_prev_0_4_y |-> div(price, average_cash_per_share),
             average_p_cash_prev_0_4_y |-> div(avg_price, average_cash_per_share),
             average_net_cash_flow_per_share_prev_0_4_y |-> average_net_cash_flow_per_share,
             latest_p_net_cash_flow_prev_0_4_y |-> div(price, average_net_cash_flow_per_share),
             average_p_net_cash_flow_prev_0_4_y |->
                div(avg_price, average_net_cash_flow_per_share),
             latest_bv_per_share |-> latest_bv_per_share,
             latest_p_bv |-> div(price, latest_bv_per_share),
             average_bv_per_share_prev_0_4_y |-> average_bv_per_share,
             latest_p_average_bv_prev_0_4_y |-> div(price, average_bv_per_share),
             average_p_bv_prev_0_4_y |-> div(avg_price, average_bv_per_share),
             average_ROA_prev_0_4_y |->
                div(avg_income, b_s_period_rep["average_total_assets_prev_0_4_y"]),
             average_ROE_prev_0_4_y |->
                div(avg_income, b_s_period_rep["average_share_holder_equity_prev_0_4_y"]),
             average_ROEC_prev_0_4_y |->
                div(avg_income,
                    sub(b_s_period_rep["average_total_assets_prev_0_4_y"],
                        b_s_period_rep["average_total_liabilities_prev_0_4_y"])),
             latest_dividend_per_share |-> latest_dividend_per_share,
             latest_dividend_yield |-> div(latest_dividend_per_share, price)]
    IN  [period_rep |-> period_rep, metrics_rep |-> metrics_rep]

generate_price_reports(price_data, i_s_data, b_s_data, c_f_data, i_s_period_rep, b_s_period_rep, c_f_period_rep) ==
    price_reports(price_data, i_s_data, b_s_data, c_f_data,
                  i_s_period_rep, b_s_period_rep, c_f_period_rep,
                  create_report_by_period(price_data, price_schema))

(***************************************************************************)
(* generate_period_and_metrics_report (picker.py:488-546), for a stored    *)
(* record that carries every schema field, a country, a market cap and an  *)
(* industry.  The exception of the income statement's report ends it.      *)
(***************************************************************************)
\* picker.py:506-546: the four pairs of reports put together
combined_reports(stock_ticker, stock_data, i_s, b_s, c_f, pr) ==
    LET i_s_data == stock_data["income_statement"]
        b_s_data == stock_data["balance_sheet"]
        c_f_data == stock_data["cash_flow_statement"]
        other_metrics ==
            [average_net_cash_flow_per_market_cap_prev_0_4_y |->
                div(pr.metrics_rep["average_net_cash_flow_per_share_prev_0_4_y"],
                    stock_data["market_cap"]),
             average_solvency_ratio_prev_0_4_y |->
                div(sub(i_s.period_rep["average_net_income_prev_0_4_y"],
                        i_s.period_rep["average_total_non_operating_income_expense_prev_0_4_y"]),
                    b_s.period_rep["average_total_liabilities_prev_0_4_y"]),
             average_cash_flow_margin_prev_0_4_y |->
                div(c_f.period_rep["average_cash_flow_from_operating_activities_prev_0_4_y"],
                    i_s.period_rep["average_revenue_prev_0_4_y"])]
        operating == [i \in 1..Len(b_s_data["total_liabilities"]) |->
                         sub(i_s_data["net_income"][i],
                             i_s_data["total_non_operating_income_expense"][i])]
        other_period_metrics ==
            [corr_coef_solvency_ratio_last_5y |->
                flipped_linear_corrcoef(
                    ratio_series(operating, b_s_data["total_liabilities"],
                                 b_s_data["total_liabilities"]), 5),
             corr_coef_cash_flow_margin_last_5y |->
                flipped_linear_corrcoef(
                    ratio_series(c_f_data["cash_flow_from_operating_activities"],
                                 i_s_data["revenue"],
                                 c_f_data["cash_flow_from_operating_activities"]), 5)]
        metrics_rep ==
            [ticker |-> stock_ticker,
             country |-> stock_data["country"],
             market_cap |-> stock_data["market_cap"],
             industry |-> stock_data["industry"]]
            @@ i_s.metrics_rep @@ b_s.metrics_rep @@ c_f.metrics_rep
            @@ other_metrics @@ pr.metrics_rep
        period_rep ==
            [ticker |-> stock_ticker]
            @@ i_s.period_rep @@ b_s.period_rep @@ c_f.period_rep @@ pr.period_rep
            @@ other_period_metrics
    IN  [raised |-> "ok", period_rep |-> period_rep, metrics_rep |-> metrics_rep]

\* picker.py:502-546, reached when the income statement's report raised nothing
priced_reports(stock_ticker, stock_data, i_s, b_s, c_f) ==
    combined_reports(stock_ticker, stock_data, i_s, b_s, c_f,
                     generate_price_reports(stock_data["price"],
                                            stock_data["income_statement"],
                                            stock_data["balance_sheet"],
                                            stock_data["cash_flow_statement"],
                                            i_s.period_rep, b_s.period_rep, c_f.period_rep))

\* picker.py:493-546
statement_reports(stock_ticker, stock_data, i_s) ==
    IF i_s.raised # "ok"
    THEN [raised |-> i_s.raised, period_rep |-> <<>>, metrics_rep |-> <<>>]
    ELSE priced_reports(stock_ticker, stock_data, i_s,
                        generate_balance_sheet_reports(stock_data["balance_sheet"]),
                        generate_cash_flow_reports(stock_data["cash_flow_statement"]))

generate_period_and_metrics_report(stocks, stock_ticker) ==
    IF stock_ticker \notin DOMAIN stocks      \* picker.py:187
    THEN [raised |-> "KeyError", period_rep |-> <<>>, metrics_rep |-> <<>>]
    ELSE statement_reports(stock_ticker, stocks[stock_ticker],
                           generate_income_statement_reports(
                               stocks[stock_ticker]["income_statement"]))

(***************************************************************************)
(* default_filter (picker.py:548-595), with the defaults of market_cap,    *)
(* filtering_country and null_data_ratio.                                  *)
(***************************************************************************)
market_cap_floor == 100        \* picker.py:552
filtering_country ==
    {"argentina", "australia", "bermuda", "brazil", "chile", "china", "columbia",
     "hong_kong_sar_china", "india", "indonesia", "israel", "japan", "mexico", "russia",
     "south_africa", "hong_kong, _sar_china"}
null_data_ratio == <<4, 5>>    \* picker.py:561, 0.8

\* picker.py:591-592: the values counted as null are None, 0 and the empty string
counted_as_null(metrics_report) ==
    {f \in DOMAIN metrics_report :
        IF f \in {"ticker", "country", "industry"} THEN metrics_report[f] = ""
        ELSE ~Truthy(metrics_report[f])}

\* `None < market_cap` raises TypeError (picker.py:564)
default_filter(period_report, metrics_report, positive_avg_earning, positive_cash_on_hand, solid_liquidity) ==
    LET eps_0_4 == period_report["average_eps_earnings_per_share_prev_0_4_y"]
        eps_5_9 == period_report["average_eps_earnings_per_share_prev_5_9_y"]
        keep ==
            /\ ~RLess(metrics_report["market_cap"], Num(market_cap_floor))
            /\ metrics_report["country"] \notin filtering_country
            /\ positive_avg_earning =>
                  ~(check_lt(eps_0_4, Num(0)) \/ check_lt(eps_5_9, Num(0)))
            \* picker.py:576-578: under positive_cash_on_hand a negative cash on hand
            \* is logged, and nothing is returned
            /\ solid_liquidity =>
                  /\ ~(\/ check_lt(metrics_report["latest_current_assets_liabilities_ratio"],
                                   Num(1))
                       \/ check_lt(
                              metrics_report["average_current_assets_liabilities_ratio_prev_0_4_y"],
                              Num(1)))
                  /\ ~(\/ check_lt(metrics_report["latest_total_assets_liabilities_ratio"],
                                   Num(1))
                       \/ check_lt(
                              metrics_report["average_total_assets_liabilities_ratio_prev_0_4_y"],
                              Num(1)))
                  /\ ~(\/ check_lt(metrics_report["latest_p_bv"], Num(0))
                       \/ check_lt(metrics_report["average_p_bv_prev_0_4_y"], Num(0)))
            /\ ~RLess(null_data_ratio,
                      Rat(Cardinality(counted_as_null(metrics_report)),
                          Cardinality(DOMAIN metrics_report)))
    IN  IF metrics_report["market_cap"] = Null
        THEN [raised |-> "TypeError", ret |-> FALSE]
        ELSE [raised |-> "ok", ret |-> keep]

(***************************************************************************)
(* The group statistics (picker.py:667-695).                               *)
(***************************************************************************)
column(reports, field) == [k \in 1..Len(reports) |-> reports[k][field]]

\* picker.py:671-679, for a group that is not empty
create_group_average_report(reports) ==
    ("ticker" :> "average")
        @@ [field \in DOMAIN reports[1] \ {"ticker", "country", "industry"} |->
               apply_f_excl_none("average", column(reports, field))]

\* picker.py:685-693 with None taken for 0
create_group_std_report_none_as_zero(reports) ==
    ("ticker" :> "std")
        @@ [field \in DOMAIN reports[1] \ {"ticker"} |->
               IF field \in {"country", "industry"} THEN Null
               ELSE apply_f_none_as_zero("std", column(reports, field))]

\* picker.py:685-693: np.isnan of a text raises, and the field's entry is None
create_group_std_report(reports) ==
    ("ticker" :> "std")
        @@ [field \in DOMAIN reports[1] \ {"ticker"} |->
               IF field \in {"country", "industry"} THEN Null
               ELSE apply_f_excl_none("std", column(reports, field))]

(***************************************************************************)
(* outlier_filter (picker.py:597-632).  A standard deviation is kept as    *)
(* its square, so `x < avg - 0.675 * std` is decided on squares.           *)
(***************************************************************************)
std_factor == <<27, 40>>       \* picker.py:617, 0.675

\* the fields of the first loop, then those of the second, in the loops' order
higher_is_better ==
    <<"eps_growth_prev_0_4_vs_5_9_y",
      "average_current_assets_liabilities_ratio_prev_0_4_y",
      "average_total_assets_liabilities_ratio_prev_0_4_y",
      "average_cash_total_liabilities_prev_0_4_y", "average_solvency_ratio_prev_0_4_y",
      "average_gross_profit_margin_prev_0_4_y", "average_net_income_margin_prev_0_4_y",
      "average_pre_tax_net_income_margin_prev_0_4_y",
      "average_ROA_prev_0_4_y", "average_ROE_prev_0_4_y", "average_ROEC_prev_0_4_y",
      "average_cash_flow_margin_prev_0_4_y",
      "average_net_cash_flow_per_market_cap_prev_0_4_y">>

lower_is_better ==
    <<"average_op_expenses_margin_prev_0_4_y", "average_non_op_per_op_expense_prev_0_4_y",
      "average_pe_prev_0_4_y", "average_p_cash_prev_0_4_y", "average_p_bv_prev_0_4_y",
      "average_dividend_net_income_ratio_prev_0_4_y",
      "average_debt_issuance_per_net_income_prev_0_4_y",
      "average_equity_issued_per_net_income_prev_0_4_y",
      "average_inventory_current_assets_ratio_prev_0_4_y">>

outlier_fields == higher_is_better \o lower_is_better

\* gap > 0.675 * std, for a std given as <<variance>>
exceeds_band(gap, deviation) ==
    /\ RLess(Num(0), gap)
    /\ RLess(RMul(RMul(std_factor, std_factor), deviation[1]), RMul(gap, gap))

\* picker.py:617 and 627: the band is worked out before check_lt is called, and
\* `None - 0.675 * None` raises TypeError
band_raises(group_avg, group_std, field) ==
    group_avg[field] = Null \/ group_std[field] = Null

\* check_lt(value, avg - 0.675 * std) for k within the first loop,
\* check_lt(avg + 0.675 * std, value) within the second
outside_band(metrics_report, group_avg, group_std, k) ==
    LET field == outlier_fields[k]
        value == metrics_report[field]
    IN  /\ value # Null
        /\ IF k <= Len(higher_is_better)
           THEN exceeds_band(RSub(group_avg[field], value), group_std[field])
           ELSE exceeds_band(RSub(value, group_avg[field]), group_std[field])

outlier_filter(metrics_report, group_avg, group_std) ==
    LET stops == {k \in 1..Len(outlier_fields) :
                     \/ band_raises(group_avg, group_std, outlier_fields[k])
                     \/ outside_band(metrics_report, group_avg, group_std, k)}
        k == SetMin(stops)
    IN  IF stops = {} THEN [raised |-> "ok", ret |-> TRUE]
        ELSE IF band_raises(group_avg, group_std, outlier_fields[k])
        THEN [raised |-> "TypeError", ret |-> FALSE]
        ELSE [raised |-> "ok", ret |-> FALSE]

(***************************************************************************)
(* add_warnings_to_metrics_rep (picker.py:634-655).  A correlation r is    *)
(* <<sign of r, n, d>> with r^2 = n/d, and 0.71^2 = 0.5041.                *)
(***************************************************************************)
downward_fields ==
    <<"revenue", "eps", "current_assets_liabilities", "total_assets_liabilities",
      "solvency_ratio", "net_income_margin", "gross_profit_margin",
      "pre_tax_net_income_margin", "cash_flow_margin", "ROA", "ROE", "ROEC">>

upward_fields == <<"op_expenses_margin", "shares_outstanding", "debt_issuance", "equity_issued">>

\* |r| >= 0.5 in place of |r| >= 0.71
strong_from_half(r) == 4 * r[2] >= r[3]

\* |r| >= 0.71: the first four decimals of n/d, by long division
strong(r) ==
    LET a == (100 * r[2]) \div r[3]
        b == (100 * ((100 * r[2]) % r[3])) \div r[3]
    IN  100 * a + b >= 5041

\* check_lte(r, -0.71)
strongly_down(r) == r # Null /\ r # NaN /\ r[1] = -1 /\ strong(r)

\* check_lte(0.71, r)
strongly_up(r) == r # Null /\ r # NaN /\ r[1] = 1 /\ strong(r)

RECURSIVE join(_, _)
join(sep, parts) ==
    IF parts = <<>> THEN ""
    ELSE IF Len(parts) = 1 THEN parts[1]
    ELSE parts[1] \o sep \o join(sep, Tail(parts))

add_warnings_to_metrics_rep(period_reports, metrics_report) ==
    LET corr(field) == period_reports["corr_coef_" \o field \o "_last_5y"]
        down(field) == strongly_down(corr(field))
        up(field) == strongly_up(corr(field))
        warnings ==
            [k \in 1..Len(SelectSeq(downward_fields, down)) |->
                "strong downward trend of " \o SelectSeq(downward_fields, down)[k]
                    \o " in last 5yrs"]
            \o [k \in 1..Len(SelectSeq(upward_fields, up)) |->
                "strong upward trend of " \o SelectSeq(upward_fields, up)[k]
                    \o " in last 5yrs"]
    IN  [warnings |-> join("; ", warnings)] @@ metrics_report

(***************************************************************************)
(* create_reports_from_multiple_tickers (picker.py:697-744), called with   *)
(* no output file.  Besides what it raises and returns, the result names   *)
(* the reports that passed default_filter and the group statistics.        *)
(***************************************************************************)
\* a list comprehension: the list of the values f[1], ..., f[n]
list(f) == f \o <<>>

\* the first entry of a list of results that raised ("ok": none did)
first_raised(results) ==
    LET R == {k \in 1..Len(results) : results[k].raised # "ok"}
    IN  IF R = {} THEN "ok" ELSE results[SetMin(R)].raised

\* what create_reports_from_multiple_tickers raised and returned, with the metrics
\* reports that passed default_filter and the statistics of their group
outcome(raised, ret, survivors, group_avg, group_std) ==
    [raised |-> raised, ret |-> ret, survivors |-> survivors,
     group_avg |-> group_avg, group_std |-> group_std]

\* picker.py:730-744: the outlier filter and the warnings
filter_outliers(survivors, metrics, filtered_group_avg, filtered_group_std) ==
    LET verdicts == list([k \in 1..Len(survivors) |->
                             outlier_filter(metrics[k], filtered_group_avg,
                                            filtered_group_std)])
        inlier(rep) ==
            outlier_filter(rep.metrics_rep, filtered_group_avg, filtered_group_std).ret
        remaining == SelectSeq(survivors, inlier)
        warned(rep) == <<rep.period_rep,
                         add_warnings_to_metrics_rep(rep.period_rep, rep.metrics_rep)>>
    IN  IF first_raised(verdicts) # "ok"
        THEN outcome(first_raised(verdicts), Null, metrics,
                     filtered_group_avg, filtered_group_std)
        ELSE outcome("ok",
                     IF remaining = <<>> THEN Null
                     ELSE list([k \in 1..Len(remaining) |-> warned(remaining[k])]),
                     metrics, filtered_group_avg, filtered_group_std)

\* picker.py:728-729 with the statistics of the first report alone
group_statistics_of_first(survivors, metrics) ==
    filter_outliers(survivors, metrics, create_group_average_report(SubSeq(metrics, 1, 1)),
                    create_group_std_report(SubSeq(metrics, 1, 1)))

\* picker.py:728-729
group_statistics(survivors, metrics) ==
    filter_outliers(survivors, metrics, create_group_average_report(metrics),
                    create_group_std_report(metrics))

\* picker.py:727-734 with the statistics and the outlier filter on the first report only
filter_first_survivor(survivors) ==
    IF survivors = <<>> THEN outcome("ok", Null, <<>>, Null, Null)
    ELSE group_statistics(<<survivors[1]>>, list(<<survivors[1].metrics_rep>>))

\* picker.py:727-734
filter_survivors(survivors) ==
    IF survivors = <<>> THEN outcome("ok", Null, <<>>, Null, Null)
    ELSE group_statistics(survivors,
                          list([k \in 1..Len(survivors) |-> survivors[k].metrics_rep]))

\* picker.py:725-744, on the reports of picker.py:715 when none of them raised
filter_reports(p_and_m_reps, auto_filter) ==
    LET checks == list([k \in 1..Len(p_and_m_reps) |->
                           default_filter(p_and_m_reps[k].period_rep,
                                          p_and_m_reps[k].metrics_rep, TRUE, TRUE, TRUE)])
        passes(rep) == default_filter(rep.period_rep, rep.metrics_rep, TRUE, TRUE, TRUE).ret
    IN  IF ~auto_filter
        THEN outcome("ok",
                     IF p_and_m_reps = <<>> THEN Null
                     ELSE list([k \in 1..Len(p_and_m_reps) |->
                                   <<p_and_m_reps[k].period_rep,
                                     p_and_m_reps[k].metrics_rep>>]),
                     <<>>, Null, Null)
        ELSE IF first_raised(checks) # "ok"
        THEN outcome(first_raised(checks), Null, <<>>, Null, Null)
        ELSE filter_survivors(SelectSeq(p_and_m_reps, passes))

\* picker.py:715: the exception of a ticker's report ends the call
reports_of(p_and_m_reps, auto_filter) ==
    IF first_raised(p_and_m_reps) # "ok"
    THEN outcome(first_raised(p_and_m_reps), Null, <<>>, Null, Null)
    ELSE filter_reports(p_and_m_reps, auto_filter)

create_reports_from_multiple_tickers(stocks, tickers, auto_filter) ==
    reports_of(list([k \in 1..Len(tickers) |->
                        generate_period_and_metrics_report(stocks, tickers[k])]),
               auto_filter)

(***************************************************************************)
(* Reporting on a loaded registry.  The companies carry every field of the *)
(* report schema, ten years each, latest year first.                       *)
(***************************************************************************)
flat(v) == [i \in 1..MinYearPoints |-> Num(v)]

\* the five latest years on a line that ends at `latest`, the years before at `old`
ramp(latest, yearly, old) ==
    [i \in 1..MinYearPoints |-> IF i <= 5 THEN Num(latest - yearly * (i - 1)) ELSE Num(old)]

\* the n latest years without a value, the years before at `old`
gap(n, old) == [i \in 1..MinYearPoints |-> IF i <= n THEN Null ELSE Num(old)]

healthy_company ==
    [income_statement |->
        [years |-> years_desc,
         revenue |-> flat(20), gross_profit |-> flat(10), operating_income |-> flat(6),
         pre_tax_income |-> flat(5), net_income |-> flat(4),
         total_non_operating_income_expense |-> flat(0 - 2),
         research_and_development_expenses |-> flat(1), shares_outstanding |-> flat(2),
         operating_expenses |-> flat(8), eps_earnings_per_share |-> ramp(8, 2, 2)],
     balance_sheet |->
        [years |-> years_desc,
         cash_on_hand |-> flat(4), share_holder_equity |-> flat(10),
         goodwill_and_intangible_assets |-> flat(2), inventory |-> flat(3),
         total_current_assets |-> flat(12), total_current_liabilities |-> flat(6),
         total_assets |-> flat(30), total_liabilities |-> flat(20)],
     cash_flow_statement |->
        [years |-> years_desc,
         net_income_loss |-> flat(4), cash_flow_from_operating_activities |-> flat(5),
         total_common_and_preferred_stock_dividends_paid |-> flat(0 - 2),
         net_cash_flow |-> flat(2), debt_issuance_retirement_net_total |-> flat(1),
         net_total_equity_issued_repurchased |-> flat(1)],
     price |->
        [years |-> years_desc, year_close |-> flat(20), average_stock_price |-> flat(20)],
     sector |-> "energy", industry |-> "oil", country |-> "united_states",
     market_cap |-> Num(200)]

\* more profit on the same balance sheet, and earnings per share that fall
strong_company ==
    [healthy_company EXCEPT
        !["income_statement"]["gross_profit"] = flat(16),
        !["income_statement"]["pre_tax_income"] = flat(10),
        !["income_statement"]["net_income"] = flat(8),
        !["income_statement"]["eps_earnings_per_share"] = ramp(2, 0 - 2, 4),
        !["cash_flow_statement"]["net_income_loss"] = flat(8)]

\* no EPS value in the four latest years
eps_gap_company ==
    [healthy_company EXCEPT !["income_statement"]["eps_earnings_per_share"] = gap(4, 2)]

\* no research expenses and no goodwill on record
sparse_company ==
    [healthy_company EXCEPT
        !["income_statement"]["research_and_development_expenses"] = gap(MinYearPoints, 0),
        !["balance_sheet"]["goodwill_and_intangible_assets"] = gap(MinYearPoints, 0)]

\* a non-operating income instead of an expense
no_expense_company ==
    [healthy_company EXCEPT !["income_statement"]["total_non_operating_income_expense"] = flat(2)]

\* below the market cap floor of default_filter
small_company == [healthy_company EXCEPT !["market_cap"] = Num(50)]

\* EPS of 2.0, 1.5, 1.0, 0.5, 0.0 in the five latest years, the latest first
rising_eps_company ==
    [healthy_company EXCEPT
        !["income_statement"]["eps_earnings_per_share"] =
            [i \in 1..MinYearPoints |-> IF i <= 5 THEN Rat(5 - i, 2) ELSE Num(0)]]

Companies ==
    <<healthy_company, strong_company, eps_gap_company, sparse_company,
      no_expense_company, small_company, rising_eps_company>>

\* validate_and_sort of each company, worked out once
CheckedCompanies == [i \in DOMAIN Companies |-> validate_and_sort(Companies[i])]

ReportTickers == <<"AAA", "BBB", "CCC">>

\* the registry after add_stock_data of Companies[load[k]] under ReportTickers[k], in turn
RECURSIVE loaded_registry(_, _)
loaded_registry(load, n) ==
    IF n = 0 THEN EmptyRegistry
    ELSE register(loaded_registry(load, n - 1), ReportTickers[n],
                  CheckedCompanies[load[n]]).reg

InitReport ==
    /\ \E load \in [DOMAIN ReportTickers -> DOMAIN Companies] :
          /\ all_stocks_data = loaded_registry(load, Len(ReportTickers))[1]
          /\ stocks_by_sectors = loaded_registry(load, Len(ReportTickers))[2]
          /\ stocks_by_industries = loaded_registry(load, Len(ReportTickers))[3]
    /\ call = NoCall
    /\ prev_call = NoCall
    /\ before = EmptyRegistry
    /\ discover_before = EmptyRegistry
    /\ adds = Len(ReportTickers)
    /\ pc = "idle"
    /\ folder = <<>>
    /\ file_idx = 0
    /\ loaded = 0
    /\ file_count = 0
    /\ NoScrap

\* generate_period_and_metrics_report of each company under each ticker, worked out once
GeneratedReports ==
    list([k \in DOMAIN ReportTickers |->
            list([i \in DOMAIN Companies |->
                    generate_period_and_metrics_report(
                        ReportTickers[k] :> CheckedCompanies[i].stock_data,
                        ReportTickers[k])])])

\* generate_period_and_metrics_report(stocks, stock_ticker), read off GeneratedReports
\* where the record under the ticker is one of Companies
report_of(stocks, stock_ticker) ==
    LET K == {k \in DOMAIN ReportTickers : ReportTickers[k] = stock_ticker}
        I == IF stock_ticker \in DOMAIN stocks
             THEN {i \in DOMAIN Companies :
                      CheckedCompanies[i].stock_data = stocks[stock_ticker]}
             ELSE {}
    IN  IF K = {} \/ I = {} THEN generate_period_and_metrics_report(stocks, stock_ticker)
        ELSE GeneratedReports[SetMin(K)][SetMin(I)]

\* picker_runner.py:10-20: the registry is loaded, one report is asked for, the run ends
GenerateReport(stock_ticker) ==
    /\ pc = "idle"
    /\ pc' = "reported"
    /\ call' = [op |-> "generate_period_and_metrics_report",
                stock_ticker |-> stock_ticker]
                @@ report_of(all_stocks_data, stock_ticker)
    /\ UNCHANGED scrapper
    /\ UNCHANGED <<all_stocks_data, stocks_by_sectors, stocks_by_industries, prev_call,
                   before, adds, folder, file_idx, loaded, file_count, discover_before>>

\* picker.py:715-744 with the returned reports kept in the ticker map
CreateReportsRetained(tickers, auto_filter) ==
    /\ pc = "idle"
    /\ pc' = "reported"
    /\ call' = [op |-> "create_reports_from_multiple_tickers", tickers |-> tickers,
                auto_filter |-> auto_filter]
                @@ reports_of(list([k \in 1..Len(tickers) |->
                                       report_of(all_stocks_data, tickers[k])]),
                              auto_filter)
    /\ all_stocks_data' = ("reports" :> call'.ret) @@ all_stocks_data
    /\ UNCHANGED scrapper
    /\ UNCHANGED <<stocks_by_sectors, stocks_by_industries, prev_call,
                   before, adds, folder, file_idx, loaded, file_count, discover_before>>

CreateReports(tickers, auto_filter) ==
    /\ pc = "idle"
    /\ pc' = "reported"
    /\ call' = [op |-> "create_reports_from_multiple_tickers", tickers |-> tickers,
                auto_filter |-> auto_filter]
                @@ reports_of(list([k \in 1..Len(tickers) |->
                                       report_of(all_stocks_data, tickers[k])]),
                              auto_filter)
    /\ UNCHANGED scrapper
    /\ UNCHANGED <<all_stocks_data, stocks_by_sectors, stocks_by_industries, prev_call,
                   before, adds, folder, file_idx, loaded, file_count, discover_before>>

\* lists of distinct loaded tickers, the empty list among them
TickerLists ==
    LET T == {ReportTickers[k] : k \in DOMAIN ReportTickers}
    IN  {<<>>} \cup {<<a>> : a \in T}
            \cup {p \in {<<a, b>> : a \in T, b \in T} : p[1] # p[2]}
            \cup {p \in {<<a, b, c>> : a \in T, b \in T, c \in T} :
                     p[1] # p[2] /\ p[1] # p[3] /\ p[2] # p[3]}

\* the lists that hold the tickers of `tickers` in some order
Orderings(tickers) ==
    {p \in TickerLists : /\ Len(p) = Len(tickers)
                         /\ {p[k] : k \in DOMAIN p} = {tickers[k] : k \in DOMAIN tickers}}

\* a second call on the same Picker, with the tickers of the first call in any order
CreateReportsAgain(tickers) ==
    /\ pc = "reported"
    /\ call.op = "create_reports_from_multiple_tickers"
    /\ pc' = "again"
    /\ prev_call' = call
    /\ call' = [op |-> "create_reports_from_multiple_tickers", tickers |-> tickers,
                auto_filter |-> call.auto_filter]
                @@ reports_of(list([k \in 1..Len(tickers) |->
                                       report_of(all_stocks_data, tickers[k])]),
                              call.auto_filter)
    /\ UNCHANGED scrapper
    /\ UNCHANGED <<all_stocks_data, stocks_by_sectors, stocks_by_industries,
                   before, adds, folder, file_idx, loaded, file_count, discover_before>>

NextReport ==
    \/ \E t \in {ReportTickers[k] : k \in DOMAIN ReportTickers} \cup {"ZZZ"} :
          GenerateReport(t)
    \/ \E tickers \in Orderings(IF "tickers" \in DOMAIN call THEN call.tickers ELSE <<>>) :
          CreateReportsAgain(tickers)
    \/ \E tickers \in TickerLists, auto_filter \in BOOLEAN : CreateReports(tickers, auto_filter)

SpecReport == InitReport /\ [][NextReport]_vars

(***************************************************************************)
(* The division on its own: div called on every pair of a small set of     *)
(* numbers and None, and the latest P/E of a price row and an EPS row.     *)
(***************************************************************************)
MaxNum == 3        \* numerators of the numbers handed to div

Nullable == {Null} \cup {Rat(n, d) : n \in (0 - MaxNum)..MaxNum, d \in 1..2}

Div(item1, item2) ==
    /\ call' = [op |-> "div", item1 |-> item1, item2 |-> item2, ret |-> div(item1, item2)]
    /\ UNCHANGED scrapper
    /\ UNCHANGED <<all_stocks_data, stocks_by_sectors, stocks_by_industries, prev_call,
                   before, adds, pc, folder, file_idx, loaded, file_count, discover_before>>

LatestPe(price_data, i_s_data) ==
    /\ call' = [op |-> "latest_pe", latest_price |-> latest_price(price_data),
                latest_eps |-> latest_eps(i_s_data),
                ret |-> latest_pe(price_data, i_s_data)]
    /\ UNCHANGED scrapper
    /\ UNCHANGED <<all_stocks_data, stocks_by_sectors, stocks_by_industries, prev_call,
                   before, adds, pc, folder, file_idx, loaded, file_count, discover_before>>

\* check_lt and check_lte on numbers, None and nan
Compare(num1, num2) ==
    /\ \/ call' = [op |-> "check_lt", num1 |-> num1, num2 |-> num2,
                   ret |-> check_lt(num1, num2)]
       \/ call' = [op |-> "check_lte", num1 |-> num1, num2 |-> num2,
                   ret |-> check_lte(num1, num2)]
    /\ UNCHANGED scrapper
    /\ UNCHANGED <<all_stocks_data, stocks_by_sectors, stocks_by_industries, prev_call,
                   before, adds, pc, folder, file_idx, loaded, file_count, discover_before>>

\* sub, add, reverse_sign and change_rate on numbers and None
Arithmetic(item1, item2) ==
    /\ \/ call' = [op |-> "sub", item1 |-> item1, item2 |-> item2, ret |-> sub(item1, item2)]
       \/ call' = [op |-> "add", item1 |-> item1, item2 |-> item2, ret |-> add(item1, item2)]
       \/ call' = [op |-> "reverse_sign", number |-> item1, ret |-> reverse_sign(item1)]
       \/ call' = [op |-> "change_rate", item1 |-> item1, item2 |-> item2,
                   ret |-> change_rate(item1, item2)]
    /\ UNCHANGED scrapper
    /\ UNCHANGED <<all_stocks_data, stocks_by_sectors, stocks_by_industries, prev_call,
                   before, adds, pc, folder, file_idx, loaded, file_count, discover_before>>

NextDiv ==
    \/ \E item1 \in Nullable, item2 \in Nullable : Div(item1, item2)
    \/ \E item1 \in Nullable, item2 \in Nullable : Arithmetic(item1, item2)
    \/ \E num1 \in Nullable \cup {NaN}, num2 \in Nullable \cup {NaN} : Compare(num1, num2)
    \/ \E price \in Nullable, eps \in Nullable :
          LatestPe([year_close |-> <<price>>], [eps_earnings_per_share |-> <<eps>>])

SpecDiv == Init /\ [][NextDiv]_vars

(***************************************************************************)
(* The report by period and the trend coefficient on their own:            *)
(* create_report_by_period on an income statement whose fields all hold    *)
(* one series, called a second time on the same dict, and                  *)
(* flipped_linear_corrcoef on a series.                                    *)
(***************************************************************************)
MaxLen == 6        \* years of a series

Series(values) == [1..MaxLen -> {Null} \cup {Num(v) : v \in values}]

CreateReportByPeriod(series) ==
    /\ pc = "idle"
    /\ pc' = "once"
    /\ call' = [op |-> "create_report_by_period",
                data |-> [f \in {income_statement_schema[k].fld :
                                    k \in DOMAIN income_statement_schema} |-> series],
                report |-> create_report_by_period(
                              [f \in {income_statement_schema[k].fld :
                                         k \in DOMAIN income_statement_schema} |-> series],
                              income_statement_schema)]
    /\ UNCHANGED scrapper
    /\ UNCHANGED <<all_stocks_data, stocks_by_sectors, stocks_by_industries, prev_call,
                   before, adds, folder, file_idx, loaded, file_count, discover_before>>

\* the same call once more, on the dict as the first call left it
CreateReportAgain ==
    /\ pc = "once"
    /\ pc' = "twice"
    /\ prev_call' = call
    /\ call' = [op |-> "create_report_by_period",
                data |-> call.data,
                report |-> create_report_by_period(call.data, income_statement_schema)]
    /\ UNCHANGED scrapper
    /\ UNCHANGED <<all_stocks_data, stocks_by_sectors, stocks_by_industries,
                   before, adds, folder, file_idx, loaded, file_count, discover_before>>

FlippedLinearCorrcoef(arr, n_data_points) ==
    /\ pc = "idle"
    /\ pc' = "twice"
    /\ call' = [op |-> "flipped_linear_corrcoef", arr |-> arr,
                n_data_points |-> n_data_points,
                ret |-> flipped_linear_corrcoef(arr, n_data_points)]
    /\ UNCHANGED scrapper
    /\ UNCHANGED <<all_stocks_data, stocks_by_sectors, stocks_by_industries, prev_call,
                   before, adds, folder, file_idx, loaded, file_count, discover_before>>

\* earnings per share at `latest` and below over the five latest years and at
\* `old` before, or without a value over the five latest years
EpsSeries ==
    {ramp(latest, yearly, old) : latest \in {0 - 2, 1, 3}, yearly \in {0, 1}, old \in {0 - 2, 0, 2}}
    \cup {gap(5, 2)}

\* a yearly figure that keeps one value, or has none
FlatSeries(values) == {flat(v) : v \in values} \cup {gap(MinYearPoints, 0)}

GenerateIncomeStatementReports(i_s_data) ==
    /\ pc = "idle"
    /\ pc' = "twice"
    /\ call' = [op |-> "generate_income_statement_reports", i_s_data |-> i_s_data]
                @@ generate_income_statement_reports(i_s_data)
    /\ UNCHANGED scrapper
    /\ UNCHANGED <<all_stocks_data, stocks_by_sectors, stocks_by_industries, prev_call,
                   before, adds, folder, file_idx, loaded, file_count, discover_before>>

GenerateCashFlowReports(c_f_data) ==
    /\ pc = "idle"
    /\ pc' = "twice"
    /\ call' = [op |-> "generate_cash_flow_reports", c_f_data |-> c_f_data]
                @@ generate_cash_flow_reports(c_f_data)
    /\ UNCHANGED scrapper
    /\ UNCHANGED <<all_stocks_data, stocks_by_sectors, stocks_by_industries, prev_call,
                   before, adds, folder, file_idx, loaded, file_count, discover_before>>

NextPeriod ==
    \/ \E debt \in FlatSeries({0 - 1, 0, 1}) \cup {ramp(3, 1, 0)}, equity \in FlatSeries({0 - 1, 0, 2}), income \in FlatSeries({0 - 4, 0, 4}) :
          GenerateCashFlowReports(
              [healthy_company["cash_flow_statement"] EXCEPT
                  !["debt_issuance_retirement_net_total"] = debt,
                  !["net_total_equity_issued_repurchased"] = equity,
                  !["net_income_loss"] = income])
    \/ \E eps \in EpsSeries, non_op \in FlatSeries({0 - 2, 0, 2}), income \in FlatSeries({0 - 4, 4}) :
          GenerateIncomeStatementReports(
              [healthy_company["income_statement"] EXCEPT
                  !["eps_earnings_per_share"] = eps,
                  !["total_non_operating_income_expense"] = non_op,
                  !["net_income"] = income])
    \/ \E series \in Series({1, 4}) : CreateReportByPeriod(series)
    \/ CreateReportAgain
    \/ \E arr \in Series({1, 2, 3}), n_data_points \in {3, 5} :
          FlippedLinearCorrcoef(arr, n_data_points)

SpecPeriod == Init /\ [][NextPeriod]_vars

(***************************************************************************)
(* The filters on their own: default_filter on the reports of a company,   *)
(* with some of the values it reads replaced, under every setting of its   *)
(* three switches; and outlier_filter on a member of a group of metrics    *)
(* reports, with the statistics of that group.                             *)
(***************************************************************************)
MaxGroup == 2      \* metrics reports in a group
\* revenue and a price, and 0 everywhere else
dormant_company ==
    [healthy_company EXCEPT
        !["income_statement"] =
            [f \in DOMAIN @ |-> IF f \in {"years", "revenue"} THEN @[f] ELSE flat(0)],
        !["balance_sheet"] = [f \in DOMAIN @ |-> IF f = "years" THEN @[f] ELSE flat(0)],
        !["cash_flow_statement"] = [f \in DOMAIN @ |-> IF f = "years" THEN @[f] ELSE flat(0)]]

\* the reports of healthy_company and of dormant_company, stored under 'AAA'
FilterReports ==
    <<GeneratedReports[1][1],
      generate_period_and_metrics_report(
          "AAA" :> validate_and_sort(dormant_company).stock_data, "AAA")>>

\* the numbers default_filter compares, besides the market cap
compared_fields ==
    {"average_eps_earnings_per_share_prev_0_4_y", "average_eps_earnings_per_share_prev_5_9_y",
     "average_cash_on_hand_prev_0_4_y",
     "latest_current_assets_liabilities_ratio",
     "average_current_assets_liabilities_ratio_prev_0_4_y",
     "latest_total_assets_liabilities_ratio",
     "average_total_assets_liabilities_ratio_prev_0_4_y",
     "latest_p_bv", "average_p_bv_prev_0_4_y"}

\* the report with `value` under `field`, where it has that field
replaced(report, field, value) ==
    IF field \in DOMAIN report THEN [report EXCEPT ![field] = value] ELSE report

DefaultFilter(period_report, metrics_report, positive_avg_earning, positive_cash_on_hand, solid_liquidity) ==
    /\ pc = "idle"
    /\ pc' = "reported"
    /\ call' = [op |-> "default_filter", period_report |-> period_report,
                metrics_report |-> metrics_report,
                positive_avg_earning |-> positive_avg_earning,
                positive_cash_on_hand |-> positive_cash_on_hand,
                solid_liquidity |-> solid_liquidity]
                @@ default_filter(period_report, metrics_report, positive_avg_earning,
                                  positive_cash_on_hand, solid_liquidity)
    /\ UNCHANGED scrapper
    /\ UNCHANGED <<all_stocks_data, stocks_by_sectors, stocks_by_industries, prev_call,
                   before, adds, folder, file_idx, loaded, file_count, discover_before>>

\* the metrics report of healthy_company with a return on equity and a P/E
GroupMembers ==
    {[FilterReports[1].metrics_rep EXCEPT !["average_ROE_prev_0_4_y"] = roe,
                                          !["average_pe_prev_0_4_y"] = pe] :
        roe \in {Null, Num(1), Num(3)}, pe \in {Null, Num(1), Num(3)}}

OutlierFilter(metrics_report, group_avg, group_std) ==
    /\ pc = "idle"
    /\ pc' = "reported"
    /\ call' = [op |-> "outlier_filter", metrics_report |-> metrics_report,
                group_avg |-> group_avg, group_std |-> group_std]
                @@ outlier_filter(metrics_report, group_avg, group_std)
    /\ UNCHANGED scrapper
    /\ UNCHANGED <<all_stocks_data, stocks_by_sectors, stocks_by_industries, prev_call,
                   before, adds, folder, file_idx, loaded, file_count, discover_before>>

\* the trend coefficients handed to add_warnings_to_metrics_rep: None, nan, -1,
\* -0.71, -0.7071.., 0.7071.. and +1
Trends ==
    {Null, NaN, <<0 - 1, 1, 1>>, <<0 - 1, 5041, 10000>>, <<0 - 1, 1, 2>>, <<1, 1, 2>>, <<1, 1, 1>>}

AddWarningsToMetricsRep(period_reports, metrics_report) ==
    /\ pc = "idle"
    /\ pc' = "reported"
    /\ call' = [op |-> "add_warnings_to_metrics_rep", period_reports |-> period_reports,
                metrics_report |-> metrics_report,
                ret |-> add_warnings_to_metrics_rep(period_reports, metrics_report)]
    /\ UNCHANGED scrapper
    /\ UNCHANGED <<all_stocks_data, stocks_by_sectors, stocks_by_industries, prev_call,
                   before, adds, folder, file_idx, loaded, file_count, discover_before>>

NextFilter ==
    \/ \E eps \in Trends, revenue \in Trends, shares \in Trends, debt \in Trends :
          AddWarningsToMetricsRep(
              [FilterReports[1].period_rep EXCEPT
                  !["corr_coef_eps_last_5y"] = eps,
                  !["corr_coef_revenue_last_5y"] = revenue,
                  !["corr_coef_shares_outstanding_last_5y"] = shares,
                  !["corr_coef_debt_issuance_last_5y"] = debt],
              FilterReports[1].metrics_rep)
    \/ \E n \in 1..MaxGroup : \E group \in [1..n -> GroupMembers], k \in 1..n :
          OutlierFilter(group[k], create_group_average_report(group),
                        create_group_std_report(group))
    \/ \E base \in DOMAIN FilterReports, market_cap \in {Null, Num(50), Num(200)},
          country \in {"china", "united_states"}, field \in compared_fields,
          value \in {Null, Num(0 - 1), Rat(1, 2), Num(2)},
          positive_avg_earning \in BOOLEAN, positive_cash_on_hand \in BOOLEAN,
          solid_liquidity \in BOOLEAN :
          DefaultFilter(replaced(FilterReports[base].period_rep, field, value),
                        [replaced(FilterReports[base].metrics_rep, field, value)
                            EXCEPT !["market_cap"] = market_cap, !["country"] = country],
                        positive_avg_earning, positive_cash_on_hand, solid_liquidity)

SpecFilter == Init /\ [][NextFilter]_vars

(***************************************************************************)
(* The scrapper (scrapper/macrotrends/scrapper.py:93-134).                 *)
(* scrap_multiple_stocks starts one async_scrap_stock_data task per URL    *)
(* and gathers them; each of these starts four page tasks, one per         *)
(* financial aspect and one for the price page, and gathers them.  Both    *)
(* gathers are given return_exceptions=True.  The event loop runs the page *)
(* tasks in any order, and a fetch or a parse can raise.                   *)
(***************************************************************************)
\* the stock main pages a call can be given
ScrapUrls == <<"stocks/AAA", "stocks/BBB">>

\* scrapper.py:32-39, financial_aspect_endpoints + (price_endpoint,)
all_endpoints ==
    <<"income-statement", "balance-sheet", "cash-flow-statement", "stock-price-history">>

\* a task the event loop has not brought to an end
pending == [state |-> "pending"]

\* a task that raised
exception(error) == [state |-> "exception", error |-> error]

\* scrapper.py:104, 110: the dict parsed from the page at url/endpoint; the
\* price page's dict has 'sector', 'industry' and 'description' unless the
\* parser gave up on the profile table (parser.py:180-183)
parsed_page(url, endpoint, profile) ==
    [state |-> "parsed", url |-> url, endpoint |-> endpoint, profile |-> profile]

\* asyncio.gather with the results taken in the order the tasks ended
gather_as_completed(results, completion_order) ==
    [k \in 1..Len(completion_order) |-> results[completion_order[k]]]

\* asyncio.gather(*tasks, return_exceptions=True) once every task has ended: the
\* results and the exceptions, in the order of the tasks
gather(results, completion_order) == [i \in 1..Len(results) |-> results[i]]

\* scrapper.py:80-91: pop of 'sector' raises KeyError on a price page without profile
create_stock_data_from_parsed_pages(parsed_pages) ==
    IF ~parsed_pages[Len(parsed_pages)].profile THEN exception("KeyError")
    ELSE [state |-> "stock_data",
          income_statement |-> <<parsed_pages[1].url, parsed_pages[1].endpoint>>,
          balance_sheet |-> <<parsed_pages[2].url, parsed_pages[2].endpoint>>,
          cash_flow_statement |-> <<parsed_pages[3].url, parsed_pages[3].endpoint>>,
          price |-> <<parsed_pages[Len(parsed_pages)].url,
                      parsed_pages[Len(parsed_pages)].endpoint>>,
          sector |-> parsed_pages[Len(parsed_pages)].url,
          industry |-> parsed_pages[Len(parsed_pages)].url,
          description |-> parsed_pages[Len(parsed_pages)].url]

\* scrapper.py:116-122, on the results of the four page tasks in the order of the
\* tasks, which is what the gather of line 112 returns
async_scrap_stock_data(pages) ==
    IF \E p \in DOMAIN pages : pages[p].state = "exception" THEN exception("BaseError")
    ELSE create_stock_data_from_parsed_pages(pages)

\* every list of up to two of the URLs, one URL twice among them
UrlLists ==
    LET U == {ScrapUrls[k] : k \in DOMAIN ScrapUrls}
    IN  {<<>>} \cup {<<a>> : a \in U} \cup {<<a, b>> : a \in U, b \in U}

\* scrapper.py:124-132: the tasks are made and the event loop is started
ScrapMultipleStocks(urls) ==
    /\ pc = "idle"
    /\ pc' = "scrapping"
    /\ stock_main_page_urls' = urls
    /\ scrapped_pages' = [i \in DOMAIN urls |-> [p \in DOMAIN all_endpoints |-> pending]]
    /\ stock_tasks' = [i \in DOMAIN urls |-> pending]
    /\ finished' = <<>>
    /\ scrapped_data' = Null
    /\ UNCHANGED <<all_stocks_data, stocks_by_sectors, stocks_by_industries, call, prev_call,
                   before, adds, folder, file_idx, loaded, file_count, discover_before>>

\* the page task p of the stock at position i comes to an end with `result`
page_task_ends(i, p, result) ==
    /\ pc = "scrapping"
    /\ scrapped_pages[i][p] = pending
    /\ scrapped_pages' = [scrapped_pages EXCEPT ![i][p] = result]
    /\ UNCHANGED <<all_stocks_data, stocks_by_sectors, stocks_by_industries, call, prev_call,
                   before, adds, pc, folder, file_idx, loaded, file_count, discover_before,
                   stock_main_page_urls, stock_tasks, finished, scrapped_data>>

\* scrapper.py:100-104: the fetch raises, the parser raises, or the page is parsed
ScrapFinAspPage(i, p, raised) ==
    /\ p < Len(all_endpoints)
    /\ page_task_ends(i, p,
                      IF raised # "ok" THEN exception(raised)
                      ELSE parsed_page(stock_main_page_urls[i], all_endpoints[p], FALSE))

\* scrapper.py:106-110
ScrapPricePage(i, raised, profile) ==
    page_task_ends(i, Len(all_endpoints),
                   IF raised # "ok" THEN exception(raised)
                   ELSE parsed_page(stock_main_page_urls[i],
                                    all_endpoints[Len(all_endpoints)], profile))

\* scrapper.py:114-122: the gather of line 112 returns when the four page tasks
\* have ended, and the stock task ends with stock data or with an exception
AsyncScrapStockData(i) ==
    /\ pc = "scrapping"
    /\ stock_tasks[i] = pending
    /\ \A p \in DOMAIN scrapped_pages[i] : scrapped_pages[i][p] # pending
    /\ stock_tasks' = [stock_tasks EXCEPT ![i] = async_scrap_stock_data(scrapped_pages[i])]
    /\ finished' = Append(finished, i)
    /\ UNCHANGED <<all_stocks_data, stocks_by_sectors, stocks_by_industries, call, prev_call,
                   before, adds, pc, folder, file_idx, loaded, file_count, discover_before,
                   stock_main_page_urls, scrapped_pages, scrapped_data>>

\* scrapper.py:128-134: the gather of the stock tasks returns, and with it the call
ScrapReturns ==
    /\ pc = "scrapping"
    /\ \A i \in DOMAIN stock_tasks : stock_tasks[i] # pending
    /\ pc' = "scrapped"
    /\ scrapped_data' = gather(stock_tasks, finished)
    /\ UNCHANGED <<all_stocks_data, stocks_by_sectors, stocks_by_industries, call, prev_call,
                   before, adds, folder, file_idx, loaded, file_count, discover_before,
                   stock_main_page_urls, scrapped_pages, stock_tasks, finished>>

NextScrap ==
    \/ \E urls \in UrlLists : ScrapMultipleStocks(urls)
    \/ \E i \in DOMAIN stock_main_page_urls, p \in DOMAIN all_endpoints,
          raised \in {"ok", "ClientResponseError"} :
          ScrapFinAspPage(i, p, raised)
    \/ \E i \in DOMAIN stock_main_page_urls, raised \in {"ok", "ParserError"},
          profile \in BOOLEAN :
          ScrapPricePage(i, raised, profile)
    \/ \E i \in DOMAIN stock_main_page_urls : AsyncScrapStockData(i)
    \/ ScrapReturns

SpecScrap == Init /\ [][NextScrap]_vars

(***************************************************************************)
(* Properties of the registry.                                             *)
(***************************************************************************)
NoDuplicates(seq) == \A i, j \in 1..Len(seq) : i # j => seq[i] # seq[j]

Listed(index, group, ticker) ==
    group \in DOMAIN index /\ \E i \in 1..Len(index[group]) : index[group][i] = ticker

IsAdd(c) == c.op = "add_stock_data"

\* C3: every sector entry and every industry entry lists a ticker at most once
C3_IndexEntriesAreSets ==
    /\ \A s \in DOMAIN stocks_by_sectors : NoDuplicates(stocks_by_sectors[s])
    /\ \A i \in DOMAIN stocks_by_industries : NoDuplicates(stocks_by_industries[i])

HasGroup(ticker, key, group) ==
    /\ ticker \in DOMAIN all_stocks_data
    /\ key \in DOMAIN all_stocks_data[ticker]
    /\ all_stocks_data[ticker][key] = group

\* C4: a ticker is listed under a sector (an industry) exactly when the record
\* stored for it has that sector (that industry)
C4_IndicesDerivedFromRecords ==
    \A t \in Tickers :
        /\ \A s \in {"energy", "finance"} :
              Listed(stocks_by_sectors, s, t) <=> HasGroup(t, "sector", s)
        /\ \A i \in {"oil", "gas"} :
              Listed(stocks_by_industries, i, t) <=> HasGroup(t, "industry", i)

\* all four statements present, each with its field arrays as long as `years`
YearAligned(stock_data) ==
    \A k \in 1..Len(required_info) :
        /\ required_info[k] \in DOMAIN stock_data
        /\ "years" \in DOMAIN stock_data[required_info[k]]
        /\ \A f \in DOMAIN stock_data[required_info[k]] :
              Len(stock_data[required_info[k]][f]) = Len(stock_data[required_info[k]]["years"])

\* the last two calls loaded one record under one ticker, both with success; the
\* second was given the first one's input again, or the record the first one stored
SameRecordTwice ==
    /\ IsAdd(call) /\ IsAdd(prev_call)
    /\ call.raised = "ok" /\ prev_call.raised = "ok"
    /\ call.stock_ticker = prev_call.stock_ticker
    /\ YearAligned(prev_call.stock_data)
    /\ \/ call.stock_data = prev_call.stock_data
       \/ call.stock_data = before[1][call.stock_ticker]

\* C5: loading the same year-aligned record twice under a ticker leaves the
\* ticker map, and so the one record stored for the ticker, as the first load made it
C5_ReloadIsIdempotent == SameRecordTwice => all_stocks_data = before[1]

\* the first load sorted an unsorted record and the second was given the stored record
C5_Witness ==
    /\ SameRecordTwice
    /\ prev_call.stock_data = unsorted_record
    /\ call.stock_data = before[1][call.stock_ticker]
    /\ call.stock_data # prev_call.stock_data

MismatchedLengths(stock_data) ==
    \E k \in 1..Len(required_info) :
        /\ required_info[k] \in DOMAIN stock_data
        /\ "years" \in DOMAIN stock_data[required_info[k]]
        /\ \E f \in DOMAIN stock_data[required_info[k]] :
              Len(stock_data[required_info[k]][f]) # Len(stock_data[required_info[k]]["years"])

\* C6: add_stock_data on a record with a field array shorter or longer than
\* `years` fails and leaves the ticker map and both indices alone
C6_MismatchedLengthsFail ==
    (IsAdd(call) /\ MismatchedLengths(call.stock_data))
        => (call.raised # "ok" /\ registry = before)

LacksStatement(stock_data) ==
    \E k \in 1..Len(required_info) : required_info[k] \notin DOMAIN stock_data

ShortHistory(stock_data) ==
    \E k \in 1..Len(required_info) :
        /\ required_info[k] \in DOMAIN stock_data
        /\ "years" \in DOMAIN stock_data[required_info[k]]
        /\ Len(stock_data[required_info[k]]["years"]) < 10

\* C7: add_stock_data on a record that lacks a required statement, or has one of
\* fewer than 10 year-points, raises and leaves the ticker map and both indices as
\* they were
C7_RejectedRecordLeavesRegistry ==
    (IsAdd(call) /\ (LacksStatement(call.stock_data) \/ ShortHistory(call.stock_data)))
        => (call.raised # "ok" /\ registry = before)

\* a record with 9 year-points in `price` was refused by a registry that holds a company
C7_Witness ==
    /\ IsAdd(call)
    /\ ShortHistory(call.stock_data)
    /\ ~LacksStatement(call.stock_data)
    /\ call.raised # "ok"
    /\ DOMAIN all_stocks_data # {}

Descending(ys) == \A i \in 1..(Len(ys) - 1) : ys[i] >= ys[i + 1]

\* C8: every required statement of every stored record has its years in descending order
C8_StoredYearsDescending ==
    \A t \in DOMAIN all_stocks_data :
        \A k \in 1..Len(required_info) :
            Descending(all_stocks_data[t][required_info[k]]["years"])

IsDiscover(c) == c.op = "discover_stocks_data_from_folder"

\* the files of a folder whose record add_stock_data accepts
Passes(file) ==
    /\ file.content # 0
    /\ ~LacksStatement(InputRecords[file.content])
    /\ ~ShortHistory(InputRecords[file.content])
    /\ ~sort_raises(InputRecords[file.content]["cash_flow_statement"])
    /\ ~sort_raises(InputRecords[file.content]["income_statement"])
    /\ ~sort_raises(InputRecords[file.content]["balance_sheet"])
    /\ ~sort_raises(InputRecords[file.content]["price"])

PassingStems(files) == {files[i].stem : i \in {j \in 1..Len(files) : Passes(files[j])}}

\* C9: when discover_stocks_data_from_folder returns, every file was taken, and the
\* registry holds, besides what it held before, exactly the files whose records
\* passed add_stock_data
C9_DiscoverSkipsOnlyFailures ==
    IsDiscover(call) =>
        /\ call.file_count = Len(call.folder)
        /\ call.loaded = Cardinality(PassingStems(call.folder))
        /\ DOMAIN all_stocks_data = DOMAIN discover_before[1] \cup PassingStems(call.folder)
        /\ \A i \in 1..Len(call.folder) :
              Passes(call.folder[i]) =>
                  all_stocks_data[call.folder[i].stem] = Checked[call.folder[i].content].stock_data

\* a folder whose first file fails and whose second file was ingested all the same
C9_Witness ==
    /\ IsDiscover(call)
    /\ Len(call.folder) = 2
    /\ ~Passes(call.folder[1])
    /\ Passes(call.folder[2])
    /\ call.folder[2].stem \in DOMAIN all_stocks_data
    /\ call.folder[2].stem \notin DOMAIN discover_before[1]

(***************************************************************************)
(* Properties of div.                                                      *)
(***************************************************************************)
\* x is the quotient item1 / item2, in lowest terms
IsQuotient(x, item1, item2) ==
    /\ x[2] > 0
    /\ GCD(Abs(x[1]), x[2]) = 1
    /\ x[1] * item2[1] * item1[2] = item1[1] * x[2] * item2[2]

\* C10: div(a, b) is null if and only if a is null, b is null, b == 0, or
\* (a < 0 and b < 0); otherwise it is a / b.  A latest EPS of 0 makes
\* latest_pe null.
C10_DivIsNullOrQuotient ==
    /\ call.op = "div" =>
          /\ call.ret = Null <=>
                \/ call.item1 = Null
                \/ call.item2 = Null
                \/ IsZero(call.item2)
                \/ IsNeg(call.item1) /\ IsNeg(call.item2)
          /\ call.ret # Null => IsQuotient(call.ret, call.item1, call.item2)
    /\ call.op = "latest_pe" =>
          (call.latest_eps # Null /\ IsZero(call.latest_eps) => call.ret = Null)

C10_Witness ==
    /\ call.op = "latest_pe"
    /\ call.latest_price # Null
    /\ call.latest_eps = Num(0)
    /\ call.ret = Null

(***************************************************************************)
(* Properties of the reports.                                              *)
(***************************************************************************)
IsGenerate == call.op = "generate_period_and_metrics_report"

statements == {"income_statement", "balance_sheet", "cash_flow_statement", "price"}

schema_of(st) ==
    CASE st = "income_statement" -> income_statement_schema
      [] st = "balance_sheet" -> balance_sheet_schema
      [] st = "cash_flow_statement" -> cash_flow_statement_schema
      [] st = "price" -> price_schema

\* the <<field, period>> pairs a schema asks an average for
WindowsOf(schema) ==
    UNION {{<<schema[k].fld, per>> :
                per \in IF schema[k].periods = <<>> THEN {default_period}
                        ELSE {schema[k].periods[j] : j \in DOMAIN schema[k].periods}} :
              k \in DOMAIN schema}

AllNull(arr) == \A i \in DOMAIN arr : arr[i] = Null

HasNullSeries(stock_data) ==
    \E st \in statements : \E f \in DOMAIN stock_data[st] \ {"years"} :
        \E i \in DOMAIN stock_data[st][f] : stock_data[st][f][i] = Null

\* C1: for an admitted company whose statement series contain null values
\* (a window 0-4 without any EPS value among them),
\* generate_period_and_metrics_report raises nothing and returns a period
\* report and a metrics report in which each affected derived field is null.
C1_NullSeriesNeverRaise ==
    (/\ IsGenerate
     /\ call.stock_ticker \in DOMAIN all_stocks_data
     /\ HasNullSeries(all_stocks_data[call.stock_ticker]))
    => /\ call.raised = "ok"
       /\ \A st \in statements : \A e \in WindowsOf(schema_of(st)) :
             AllNull(Slice(all_stocks_data[call.stock_ticker][st][e[1]], e[2]))
                => call.period_rep[report_field_name(e[1], e[2])] = Null
       /\ call.period_rep["average_eps_earnings_per_share_prev_0_4_y"] = Null
             => /\ call.metrics_rep["eps_growth_prev_0_4_vs_5_9_y"] = Null
                /\ call.metrics_rep["latest_p_average_e_prev_0_4_y"] = Null
                /\ call.metrics_rep["average_pe_prev_0_4_y"] = Null
       /\ call.period_rep["average_research_and_development_expenses_prev_0_4_y"] = Null
             => call.metrics_rep["average_r_and_d_expenses_ratio_prev_0_4_y"] = Null

IsCreate == call.op = "create_reports_from_multiple_tickers"

\* the outlier fields without a value in any report that passed default_filter
ValuelessFields ==
    {f \in {outlier_fields[k] : k \in DOMAIN outlier_fields} :
        \A k \in DOMAIN call.survivors : call.survivors[k][f] = Null}

\* the report is outside the band of some field that has its statistics
OutsideSomeBand(metrics_report) ==
    \E k \in DOMAIN outlier_fields :
        /\ outlier_fields[k] \notin ValuelessFields
        /\ outside_band(metrics_report, call.group_avg, call.group_std, k)

\* C2: when a listed outlier field has no non-null value in any report that
\* passed default_filter, its group mean and standard deviation are null and
\* outlier_filter raises nothing and rejects no company on account of it.
C2_NullStatisticNeverRaises ==
    (IsCreate /\ call.survivors # <<>> /\ ValuelessFields # {})
    => /\ \A f \in ValuelessFields : call.group_avg[f] = Null /\ call.group_std[f] = Null
       /\ call.raised = "ok"
       /\ \A k \in DOMAIN call.survivors :
             ~OutsideSomeBand(call.survivors[k])
                => /\ call.ret # Null
                   /\ \E j \in DOMAIN call.ret :
                         call.ret[j][2]["ticker"] = call.survivors[k]["ticker"]

\* the operands of a comparison are both numbers
BothNumbers(c) == c.num1 \notin {Null, NaN} /\ c.num2 \notin {Null, NaN}

\* C11: check_lt (check_lte) returns True exactly when both operands are numbers
\* and num1 < num2 (num1 <= num2); with None or nan on a side it returns False
C11_ComparisonsAreNullSafe ==
    /\ call.op = "check_lt" =>
          (call.ret <=> BothNumbers(call)
                        /\ call.num1[1] * call.num2[2] < call.num2[1] * call.num1[2])
    /\ call.op = "check_lte" =>
          (call.ret <=> BothNumbers(call)
                        /\ call.num1[1] * call.num2[2] <= call.num2[1] * call.num1[2])

\* check_lt of a number and None returned False
C11_Witness ==
    /\ call.op = "check_lt"
    /\ call.num1 = Num(0 - 1) /\ call.num2 = Null
    /\ call.ret = FALSE

\* x is the number n/d, in lowest terms
IsFraction(x, n, d) ==
    /\ x # Null
    /\ x[2] > 0
    /\ GCD(Abs(x[1]), x[2]) = 1
    /\ x[1] * d = n * x[2]

\* C12: sub and add return None when an operand is None and the difference (the
\* sum) otherwise; reverse_sign returns None for None and -x otherwise;
\* change_rate returns None when item2 is 0 or an operand is None, and
\* (item1 - item2) / item2 otherwise
C12_ArithmeticIsNullSafe ==
    /\ call.op = "sub" =>
          IF call.item1 = Null \/ call.item2 = Null THEN call.ret = Null
          ELSE IsFraction(call.ret,
                          call.item1[1] * call.item2[2] - call.item2[1] * call.item1[2],
                          call.item1[2] * call.item2[2])
    /\ call.op = "add" =>
          IF call.item1 = Null \/ call.item2 = Null THEN call.ret = Null
          ELSE IsFraction(call.ret,
                          call.item1[1] * call.item2[2] + call.item2[1] * call.item1[2],
                          call.item1[2] * call.item2[2])
    /\ call.op = "reverse_sign" =>
          IF call.number = Null THEN call.ret = Null
          ELSE IsFraction(call.ret, 0 - call.number[1], call.number[2])
    /\ call.op = "change_rate" =>
          IF call.item1 = Null \/ call.item2 = Null THEN call.ret = Null
          ELSE IF call.item2[1] = 0 THEN call.ret = Null
          ELSE IsFraction(call.ret,
                          call.item1[1] * call.item2[2] - call.item2[1] * call.item1[2],
                          call.item1[2] * call.item2[1])

\* change_rate of None and a number other than 0 returned None
C12_Witness ==
    /\ call.op = "change_rate"
    /\ call.item1 = Null /\ call.item2 = Num(2)
    /\ call.ret = Null

IsPeriodReport == call.op = "create_report_by_period"

\* the sum of a list of integers
RECURSIVE SumInts(_)
SumInts(seq) == IF seq = <<>> THEN 0 ELSE Head(seq) + SumInts(Tail(seq))

\* the numerators of the values of series[start:end] that are not None, for a
\* series of whole numbers
Present(series, start, end) ==
    LET inside == {i \in 1..Len(series) : start < i /\ i <= end /\ series[i] # Null}
        nth(k) == CHOOSE i \in inside : Cardinality({j \in inside : j < i}) = k - 1
    IN  [k \in 1..Cardinality(inside) |-> series[nth(k)][1]]

\* x is None when `values` is empty, and the mean of `values` otherwise
IsMeanOrNull(x, values) ==
    IF values = <<>> THEN x = Null ELSE IsFraction(x, SumInts(values), Len(values))

\* C13: the fields of the schema without periods are reported under
\* average_<field>_prev_0_4_y as the mean of the values that are not None among
\* the 5 latest years of their series
C13_DefaultWindowIsFiveYears ==
    IsPeriodReport =>
        \A k \in DOMAIN income_statement_schema :
            income_statement_schema[k].periods = <<>> =>
                IsMeanOrNull(
                    call.report["average_" \o income_statement_schema[k].fld \o "_prev_0_4_y"],
                    Present(call.data[income_statement_schema[k].fld], 0, 5))

\* the windows of entry k of the income statement schema
Windows(k) ==
    IF income_statement_schema[k].periods = <<>> THEN {<<0, 4>>}
    ELSE {income_statement_schema[k].periods[j] :
             j \in DOMAIN income_statement_schema[k].periods}

\* C14: the aggregate of a series over a window (start, end) is None when
\* series[start:end] holds no value, and otherwise the mean of exactly the values
\* of series[start:end] that are not None; a second aggregation of the same
\* series gives the same report and finds the series as it was
C14_AggregateIsMeanOfPresent ==
    IsPeriodReport =>
        /\ \A k \in DOMAIN income_statement_schema : \A per \in Windows(k) :
               IsMeanOrNull(
                   call.report["average_" \o income_statement_schema[k].fld \o "_prev_"
                                   \o ToString(per[1]) \o "_" \o ToString(per[2]) \o "_y"],
                   Present(call.data[income_statement_schema[k].fld], per[1], per[2]))
        /\ pc = "twice" => call.report = prev_call.report /\ call.data = prev_call.data

\* a series with a gap inside the window was aggregated twice, and a series with
\* nothing inside a later window gave None there
C14_Witness ==
    /\ IsPeriodReport
    /\ pc = "twice"
    /\ prev_call.op = "create_report_by_period"
    /\ call.data["revenue"] = <<Num(1), Null, Num(4), Num(4), Num(1), Null>>
    /\ call.report["average_revenue_prev_0_4_y"] = Num(3)
    /\ call.report["average_revenue_prev_5_9_y"] = Null

IsTrend == call.op = "flipped_linear_corrcoef"

\* the n latest values of arr that are not None, oldest first (whole numbers)
Chronological(arr, n) == [x \in 1..n |-> Present(arr, 0, Len(arr))[n + 1 - x]]

\* r, kept as <<sign, a, b>> with r^2 = a/b, is Pearson's coefficient of the
\* points (0, ys[1]), ..., (n - 1, ys[n]), from the sums of the textbook formula
IsPearson(r, ys) ==
    LET n == Len(ys)
        Sx == SumInts([x \in 1..n |-> x - 1])
        Sxx == SumInts([x \in 1..n |-> (x - 1) * (x - 1)])
        Sy == SumInts(ys)
        Syy == SumInts([x \in 1..n |-> ys[x] * ys[x]])
        Sxy == SumInts([x \in 1..n |-> (x - 1) * ys[x]])
        cov == n * Sxy - Sx * Sy
        vx == n * Sxx - Sx * Sx
        vy == n * Syy - Sy * Sy
    IN  IF vy = 0 THEN r = NaN
        ELSE /\ Len(r) = 3
             /\ r[1] = (IF cov < 0 THEN 0 - 1 ELSE IF cov = 0 THEN 0 ELSE 1)
             /\ IsFraction(<<r[2], r[3]>>, cov * cov, vx * vy)

\* ys rises by one and the same positive step
RisesLinearly(ys) ==
    /\ ys[2] > ys[1]
    /\ \A x \in 1..(Len(ys) - 1) : ys[x + 1] - ys[x] = ys[2] - ys[1]

\* C15: flipped_linear_corrcoef(arr, n) is None when arr holds fewer than n
\* values; otherwise it is the correlation of the n latest values, oldest first,
\* with 0..n-1, which is +1 when they rise linearly
C15_TrendOfLatestValues ==
    IsTrend =>
        IF Len(Present(call.arr, 0, Len(call.arr))) < call.n_data_points
        THEN call.ret = Null
        ELSE /\ IsPearson(call.ret, Chronological(call.arr, call.n_data_points))
             /\ RisesLinearly(Chronological(call.arr, call.n_data_points))
                   => call.ret = <<1, 1, 1>>

\* a series with a gap whose three latest values rise from 1 to 3 has trend +1
C15_Witness ==
    /\ IsTrend
    /\ call.arr = <<Num(3), Null, Num(2), Num(1), Null, Num(3)>>
    /\ call.n_data_points = 3
    /\ call.ret = <<1, 1, 1>>

\* the text `part` occurs in the text `whole`
Contains(whole, part) ==
    \E i \in 1..(Len(whole) - Len(part) + 1) : SubSeq(whole, i, i + Len(part) - 1) = part

\* the record stored under the ticker has the EPS 2.0, 1.5, 1.0, 0.5, 0.0 at the
\* offsets 0 to 4
HasScenarioEps(stock_ticker) ==
    /\ stock_ticker \in DOMAIN all_stocks_data
    /\ SubSeq(all_stocks_data[stock_ticker]["income_statement"]["eps_earnings_per_share"],
              1, 5) = <<Num(2), Rat(3, 2), Num(1), Rat(1, 2), Num(0)>>

\* C16: a company whose EPS at the offsets 0 to 4 is 2.0, 1.5, 1.0, 0.5, 0.0 is
\* reported with corr_coef_eps_last_5y = -1, and where it is among the filtered
\* reports its warnings hold 'strong downward trend of eps'
C16_ScenarioEpsTrendsDown ==
    /\ IsGenerate /\ HasScenarioEps(call.stock_ticker) =>
          /\ call.raised = "ok"
          /\ call.period_rep["corr_coef_eps_last_5y"] = <<0 - 1, 1, 1>>
    /\ IsCreate /\ call.auto_filter /\ call.raised = "ok" /\ call.ret # Null =>
          \A k \in 1..Len(call.ret) :
              HasScenarioEps(call.ret[k][2]["ticker"]) =>
                  Contains(call.ret[k][2]["warnings"], "strong downward trend of eps")

IsDefaultFilter == call.op = "default_filter"

Negative(x) == x # Null /\ x[1] < 0

BelowOne(x) == x # Null /\ x[1] < x[2]

\* one of the conditions on which default_filter is to reject holds of the call
RejectCondition ==
    \/ call.metrics_report["market_cap"] # Null
          /\ call.metrics_report["market_cap"][1]
                < market_cap_floor * call.metrics_report["market_cap"][2]
    \/ call.metrics_report["country"] \in filtering_country
    \/ /\ call.positive_avg_earning
       /\ \/ Negative(call.period_report["average_eps_earnings_per_share_prev_0_4_y"])
          \/ Negative(call.period_report["average_eps_earnings_per_share_prev_5_9_y"])
    \/ /\ call.solid_liquidity
       /\ \/ BelowOne(call.metrics_report["latest_current_assets_liabilities_ratio"])
          \/ BelowOne(call.metrics_report["average_current_assets_liabilities_ratio_prev_0_4_y"])
          \/ BelowOne(call.metrics_report["latest_total_assets_liabilities_ratio"])
          \/ BelowOne(call.metrics_report["average_total_assets_liabilities_ratio_prev_0_4_y"])
          \/ Negative(call.metrics_report["latest_p_bv"])
          \/ Negative(call.metrics_report["average_p_bv_prev_0_4_y"])

\* the fields of the metrics report that hold None or nan, and those that hold 0
EmptyFields ==
    {f \in DOMAIN call.metrics_report \ {"ticker", "country", "industry"} :
        call.metrics_report[f] \in {Null, NaN}}

ZeroFields ==
    {f \in DOMAIN call.metrics_report \ {"ticker", "country", "industry"} :
        call.metrics_report[f] = Num(0)}

\* more than 0.8 of the fields are in S
OverRatio(S) == 5 * Cardinality(S) > 4 * Cardinality(DOMAIN call.metrics_report)

\* C17: default_filter returns False whenever the market cap is below the floor,
\* the country is excluded, an average EPS is negative (positive_avg_earning), or
\* a current ratio or total-asset ratio is below 1 or a P/B is negative
\* (solid_liquidity), whatever else holds; a field without a value makes it
\* neither reject nor fail, so that it returns False only on one of these
\* conditions or at the data-quality gate
C17_HardFiltersReject ==
    IsDefaultFilter =>
        /\ call.raised = "ok"
        /\ RejectCondition => call.ret = FALSE
        /\ call.ret = FALSE => RejectCondition \/ OverRatio(EmptyFields \cup ZeroFields)

\* C18: under positive_cash_on_hand default_filter returns False for every report
\* whose average cash on hand of the window 0-4 is negative; without the switch
\* it returns what it returns for the report without that value
C18_NegativeCashRejects ==
    IsDefaultFilter /\ call.raised = "ok" =>
        /\ call.positive_cash_on_hand
              /\ Negative(call.period_report["average_cash_on_hand_prev_0_4_y"])
              => call.ret = FALSE
        /\ ~call.positive_cash_on_hand =>
              call.ret = default_filter(
                             replaced(call.period_report, "average_cash_on_hand_prev_0_4_y", Null),
                             call.metrics_report, call.positive_avg_earning, FALSE,
                             call.solid_liquidity).ret

\* C19: where no other condition rejects, default_filter returns False exactly
\* when more than null_data_ratio (0.8) of the fields of the metrics report hold
\* None or nan; a field that holds the number 0 is not counted
C19_GateCountsNullFields ==
    IsDefaultFilter /\ call.raised = "ok" /\ ~RejectCondition =>
        (call.ret = FALSE <=> OverRatio(EmptyFields))

IsOutlierFilter == call.op = "outlier_filter"

\* distance > 0.675 * std with both at hand, 0.675^2 being 729/1600
BeyondBand(distance, deviation) ==
    /\ distance[1] > 0
    /\ 729 * deviation[1][1] * distance[2] * distance[2]
          < 1600 * deviation[1][2] * distance[1] * distance[1]

\* the value of the field is below (above) the band of the group
BelowBand(field) ==
    /\ call.metrics_report[field] # Null
    /\ call.group_avg[field] # Null /\ call.group_std[field] # Null
    /\ BeyondBand(RSub(call.group_avg[field], call.metrics_report[field]),
                  call.group_std[field])

AboveBand(field) ==
    /\ call.metrics_report[field] # Null
    /\ call.group_avg[field] # Null /\ call.group_std[field] # Null
    /\ BeyondBand(RSub(call.metrics_report[field], call.group_avg[field]),
                  call.group_std[field])

\* C20: outlier_filter returns False if and only if the value of a
\* higher-is-better field is below mean - 0.675 * std of the group or the value
\* of a lower-is-better field is above mean + 0.675 * std; a value on the bound
\* or a field without a value passes
C20_OutlierIffBeyondBand ==
    IsOutlierFilter =>
        /\ call.raised = "ok"
        /\ call.ret = FALSE <=>
              \/ \E k \in DOMAIN higher_is_better : BelowBand(higher_is_better[k])
              \/ \E k \in DOMAIN lower_is_better : AboveBand(lower_is_better[k])

\* the values of a field over the reports that passed default_filter, None left out
CohortValues(field) ==
    LET present(v) == v # Null
    IN  SelectSeq([k \in DOMAIN call.survivors |-> call.survivors[k][field]], present)

\* m is None for no value, and otherwise the number whose n-fold is the sum of the n values
IsGroupMean(m, values) ==
    IF values = <<>> THEN m = Null
    ELSE m # Null /\ RMul(m, Num(Len(values))) = RSum(values)

\* s, kept as <<variance>>, is None for no value, and otherwise the population
\* standard deviation of the values around their mean m
IsGroupStd(s, m, values) ==
    IF values = <<>> THEN s = Null
    ELSE /\ Len(s) = 1
         /\ RMul(s[1], Num(Len(values)))
               = RSum([i \in DOMAIN values |->
                          RMul(RSub(values[i], m), RSub(values[i], m))])

IdentityFields == {"ticker", "country", "industry"}

\* C21: every numeric field of the group average report is the mean of the
\* values of that field that are not None over the reports of the group, the
\* group standard deviation is taken over the same values, and ticker, country
\* and industry have no statistic
C21_GroupStatisticsSkipNulls ==
    IsCreate /\ call.survivors # <<>> =>
        /\ \A f \in DOMAIN call.survivors[1] \ IdentityFields :
               /\ IsGroupMean(call.group_avg[f], CohortValues(f))
               /\ IsGroupStd(call.group_std[f], call.group_avg[f], CohortValues(f))
        /\ DOMAIN call.group_avg \cap IdentityFields = {"ticker"}
        /\ call.group_avg["ticker"] = "average"
        /\ call.group_std["ticker"] = "std"
        /\ call.group_std["country"] = Null /\ call.group_std["industry"] = Null

\* a group of three reports in which a field has two different values and one
\* None, and a mean and a standard deviation above 0
C21_Witness ==
    /\ IsCreate
    /\ Len(call.survivors) = 3
    /\ \E f \in DOMAIN call.survivors[1] \ IdentityFields :
          /\ Len(CohortValues(f)) = 2
          /\ CohortValues(f)[1] # CohortValues(f)[2]
          /\ call.group_avg[f] # Null
          /\ RLess(Num(0), call.group_std[f][1])

\* the report of the ticker passes default_filter
PassesDefaultFilter(stock_ticker) ==
    default_filter(report_of(all_stocks_data, stock_ticker).period_rep,
                   report_of(all_stocks_data, stock_ticker).metrics_rep, TRUE, TRUE, TRUE).ret

\* the tickers of a list of metrics reports
TickersOf(metrics) == {metrics[k]["ticker"] : k \in DOMAIN metrics}

\* the call filtered reports that were all generated
IsFilteredCreate ==
    /\ IsCreate
    /\ call.auto_filter
    /\ \A k \in DOMAIN call.tickers :
          report_of(all_stocks_data, call.tickers[k]).raised = "ok"

\* C22: with auto_filter the group mean and standard deviation are those of the
\* metrics reports of exactly the companies that passed default_filter, the
\* companies returned are the ones among these that are inside every band of
\* those statistics, the warnings are on the returned reports only, and the
\* result is None when no company is left
C22_StagesInOrder ==
    IsFilteredCreate =>
        /\ TickersOf(call.survivors)
              = {t \in {call.tickers[k] : k \in DOMAIN call.tickers} : PassesDefaultFilter(t)}
        /\ call.survivors # <<>> =>
              \A f \in DOMAIN call.survivors[1] \ IdentityFields :
                  /\ IsGroupMean(call.group_avg[f], CohortValues(f))
                  /\ IsGroupStd(call.group_std[f], call.group_avg[f], CohortValues(f))
        /\ call.raised # "ok" => call.ret = Null
        /\ call.raised = "ok" =>
              LET inside == {k \in DOMAIN call.survivors : ~OutsideSomeBand(call.survivors[k])}
              IN  /\ inside = {} <=> call.ret = Null
                  /\ call.ret # Null =>
                        /\ Len(call.ret) = Cardinality(inside)
                        /\ \A j \in DOMAIN call.ret :
                              /\ "warnings" \in DOMAIN call.ret[j][2]
                              /\ \E k \in inside :
                                    /\ "warnings" \notin DOMAIN call.survivors[k]
                                    /\ \A f \in DOMAIN call.survivors[k] :
                                          call.ret[j][2][f] = call.survivors[k][f]

\* of three companies one was stopped by default_filter and one by the outlier
\* filter, and the third was returned with its warnings
C22_Witness ==
    /\ IsFilteredCreate
    /\ Len(call.tickers) = 3
    /\ Len(call.survivors) = 2
    /\ call.raised = "ok"
    /\ call.ret # Null
    /\ Len(call.ret) = 1
    /\ "warnings" \in DOMAIN call.ret[1][2]

IsAddWarnings == call.op = "add_warnings_to_metrics_rep"

\* the trend coefficient of the field in the call's period report is a number
\* on the side of `sign` with |r| >= 0.71, r^2 >= 0.5041
StrongTrend(field, sign) ==
    LET r == call.period_reports["corr_coef_" \o field \o "_last_5y"]
    IN  r \notin {Null, NaN} /\ r[1] = sign /\ 10000 * r[2] >= 5041 * r[3]

\* the warnings the call is to give, as a set
DueWarnings ==
    {"strong downward trend of " \o downward_fields[k] \o " in last 5yrs" :
        k \in {j \in DOMAIN downward_fields : StrongTrend(downward_fields[j], 0 - 1)}}
    \cup {"strong upward trend of " \o upward_fields[k] \o " in last 5yrs" :
              k \in {j \in DOMAIN upward_fields : StrongTrend(upward_fields[j], 1)}}

\* the warnings no call gives for a field of the other list or an unlisted field
AllWarnings ==
    {"strong downward trend of " \o downward_fields[k] \o " in last 5yrs" :
        k \in DOMAIN downward_fields}
    \cup {"strong upward trend of " \o upward_fields[k] \o " in last 5yrs" :
              k \in DOMAIN upward_fields}

RECURSIVE TotalLen(_)
TotalLen(S) ==
    IF S = {} THEN 0 ELSE LET s == CHOOSE x \in S : TRUE IN Len(s) + TotalLen(S \ {s})

\* C23: the warnings string holds 'strong downward trend of X' exactly for the
\* fields X of the first list with a coefficient that is a number <= -0.71 and
\* 'strong upward trend of X' exactly for those of the second list with a
\* coefficient >= 0.71, joined by '; ' and nothing else; the report is returned
\* with every other field as it was
C23_WarningsMatchTrends ==
    IsAddWarnings =>
        /\ \A w \in AllWarnings : Contains(call.ret["warnings"], w) <=> w \in DueWarnings
        /\ Len(call.ret["warnings"])
              = TotalLen(DueWarnings)
                  + (IF DueWarnings = {} THEN 0 ELSE 2 * (Cardinality(DueWarnings) - 1))
        /\ Cardinality(DueWarnings) > 1 => Contains(call.ret["warnings"], "5yrs; strong ")
        /\ DOMAIN call.ret = DOMAIN call.metrics_report \cup {"warnings"}
        /\ \A f \in DOMAIN call.metrics_report : call.ret[f] = call.metrics_report[f]

\* EPS falling at -0.71 and the shares rising at +1 are both warned of, a revenue
\* falling at -0.7071 and a debt issuance without a coefficient are not
C23_Witness ==
    /\ IsAddWarnings
    /\ call.period_reports["corr_coef_eps_last_5y"] = <<0 - 1, 5041, 10000>>
    /\ call.period_reports["corr_coef_revenue_last_5y"] = <<0 - 1, 1, 2>>
    /\ call.period_reports["corr_coef_shares_outstanding_last_5y"] = <<1, 1, 1>>
    /\ call.period_reports["corr_coef_debt_issuance_last_5y"] = Null
    /\ call.ret["warnings"]
          = "strong downward trend of eps in last 5yrs; strong upward trend of shares_outstanding in last 5yrs"

IsIncomeReports == call.op = "generate_income_statement_reports" /\ call.raised = "ok"

\* the average earnings per share of the latest window and of the baseline window
RecentEps == call.period_rep["average_eps_earnings_per_share_prev_0_4_y"]
BaselineEps == call.period_rep["average_eps_earnings_per_share_prev_5_9_y"]

\* C24: with a positive baseline the EPS growth is the naive rate
\* (recent - baseline) / baseline, with a negative baseline it is the negated
\* naive rate (baseline - recent) / baseline
C24_EpsGrowthMirrorsNegativeBase ==
    IsIncomeReports /\ BaselineEps # Null /\ ~IsZero(BaselineEps) =>
        LET growth == call.metrics_rep["eps_growth_prev_0_4_vs_5_9_y"]
        IN  /\ growth # Null
            /\ RMul(growth, BaselineEps)
                  = IF IsNeg(BaselineEps) THEN RSub(BaselineEps, RecentEps)
                    ELSE RSub(RecentEps, BaselineEps)

\* C25: the non-operating drag has a value only when the average non-operating
\* income/expense of the latest window is negative, and a value it has is positive
C25_NonOpDragIsPositiveMagnitude ==
    IsIncomeReports /\ call.metrics_rep["average_non_op_per_op_expense_prev_0_4_y"] # Null =>
        LET avg_non_op == call.period_rep["average_total_non_operating_income_expense_prev_0_4_y"]
        IN  /\ avg_non_op # Null /\ IsNeg(avg_non_op)
            /\ RLess(Num(0), call.metrics_rep["average_non_op_per_op_expense_prev_0_4_y"])

IsCashFlowReports == call.op = "generate_cash_flow_reports"

\* value is None unless the issuance is a positive number, and is then
\* issuance / net_income, None for a net income that is None or zero
IsIssuancePerIncome(value, issuance, net_income) ==
    IF issuance = Null \/ ~RLess(Num(0), issuance) THEN value = Null
    ELSE IF net_income = Null \/ IsZero(net_income) THEN value = Null
    ELSE value # Null /\ RMul(value, net_income) = issuance

\* C26: debt issuance per net income and equity issued per net income are None
\* when the window average of the issuance is None, zero or negative, and the
\* quotient of that average by the average net income when it is positive
C26_IssuancePerIncomeOnlyWhenPositive ==
    IsCashFlowReports =>
        /\ IsIssuancePerIncome(
               call.metrics_rep["average_debt_issuance_per_net_income_prev_0_4_y"],
               call.period_rep["average_debt_issuance_retirement_net_total_prev_0_4_y"],
               call.period_rep["average_net_income_loss_prev_0_4_y"])
        /\ IsIssuancePerIncome(
               call.metrics_rep["average_equity_issued_per_net_income_prev_0_4_y"],
               call.period_rep["average_net_total_equity_issued_repurchased_prev_0_4_y"],
               call.period_rep["average_net_income_loss_prev_0_4_y"])

\* debt issued at 3/2 a year on average and equity bought back, against a loss of 4
C26_Witness ==
    /\ IsCashFlowReports
    /\ call.period_rep["average_debt_issuance_retirement_net_total_prev_0_4_y"] = <<3, 2>>
    /\ call.period_rep["average_net_total_equity_issued_repurchased_prev_0_4_y"] = <<0 - 1, 1>>
    /\ call.period_rep["average_net_income_loss_prev_0_4_y"] = <<0 - 4, 1>>
    /\ call.metrics_rep["average_debt_issuance_per_net_income_prev_0_4_y"] = <<0 - 3, 8>>
    /\ call.metrics_rep["average_equity_issued_per_net_income_prev_0_4_y"] = Null

\* the reports a call returned, as a set: none for None and for an exception
Returned(c) == IF c.ret = Null THEN {} ELSE {c.ret[k] : k \in DOMAIN c.ret}

IsSecondCreate == pc = "again" /\ IsCreate

\* C27: a second call with the same tickers in any order raises or returns as the
\* first did and returns the same companies, each with the same two reports;
\* with the tickers in the same order it returns the same list
C27_SameResultInAnyOrder ==
    IsSecondCreate =>
        /\ (call.raised = "ok") <=> (prev_call.raised = "ok")
        /\ Returned(call) = Returned(prev_call)
        /\ (call.ret = Null) <=> (prev_call.ret = Null)
        /\ call.tickers = prev_call.tickers => call.ret = prev_call.ret

\* three companies pass every filter; asked for in another order they come
\* back in another order
C27_Witness ==
    /\ IsSecondCreate
    /\ call.auto_filter
    /\ call.tickers # prev_call.tickers
    /\ call.ret # Null
    /\ Len(call.ret) = 3
    /\ call.ret # prev_call.ret
    /\ \E j \in DOMAIN call.ret : call.ret[j][2]["warnings"] # ""

\* C28: a step that generates the reports of one ticker, or generates and
\* filters the reports of a list of tickers, leaves the ticker map with every
\* stored record and the sector and industry indices as they were, and so
\* stores no report in them
C28_ReportsLeaveRegistryUnchanged ==
    [][call'.op \in {"generate_period_and_metrics_report",
                     "create_reports_from_multiple_tickers"}
          => /\ all_stocks_data' = all_stocks_data
             /\ stocks_by_sectors' = stocks_by_sectors
             /\ stocks_by_industries' = stocks_by_industries]_vars

\* reports were generated, filtered by both filters and returned, twice, and the
\* registry holds the three loaded records, each under its sector and industry
C28_Witness ==
    /\ IsSecondCreate
    /\ call.auto_filter
    /\ call.ret # Null
    /\ Len(call.survivors) > Len(call.ret)
    /\ DOMAIN all_stocks_data = {ReportTickers[k] : k \in DOMAIN ReportTickers}
    /\ \A t \in DOMAIN all_stocks_data :
          /\ \E i \in DOMAIN Companies : all_stocks_data[t] = CheckedCompanies[i].stock_data
          /\ \E k \in DOMAIN stocks_by_sectors[all_stocks_data[t]["sector"]] :
                stocks_by_sectors[all_stocks_data[t]["sector"]][k] = t
          /\ \E k \in DOMAIN stocks_by_industries[all_stocks_data[t]["industry"]] :
                stocks_by_industries[all_stocks_data[t]["industry"]][k] = t

\* the values a statement holds at position i, by field
Row(req_field_data, i) ==
    [f \in {g \in DOMAIN req_field_data : i \in DOMAIN req_field_data[g]} |->
        req_field_data[f][i]]

\* every row of `stored` is a row of `input`, year and values together, and no
\* row of the input is stored more often than the input has it
SameRows(stored, input) ==
    \A i \in DOMAIN stored["years"] :
        /\ DOMAIN Row(stored, i) = DOMAIN stored
        /\ Cardinality({k \in DOMAIN stored["years"] : Row(stored, k) = Row(stored, i)})
              <= Cardinality({j \in DOMAIN input["years"] : Row(input, j) = Row(stored, i)})

\* C29: in the record add_stock_data stored, every statement holds next to each
\* year the values the input held at that year's position, field by field
C29_SortKeepsRowsTogether ==
    IsAdd(call) /\ call.raised = "ok" =>
        \A k \in 1..Len(required_info) :
            LET stored == all_stocks_data[call.stock_ticker][required_info[k]]
                input == call.stock_data[required_info[k]]
            IN  \/ SameRows(stored, input)
                \/ stored = input /\ \E f \in DOMAIN input : input[f] = <<>>

\* a record with years out of order was stored with its years in another order
\* than given, and every stored value is still the one of its field and year
C29_Witness ==
    /\ IsAdd(call)
    /\ call.raised = "ok"
    /\ call.stock_data = unsorted_record
    /\ \A k \in 1..Len(required_info) :
          LET stored == all_stocks_data[call.stock_ticker][required_info[k]]
          IN  /\ stored["years"] # call.stock_data[required_info[k]]["years"]
              /\ Descending(stored["years"])
              /\ \A f \in DOMAIN stored \ {"years"} :
                    \A i \in DOMAIN stored[f] : stored[f][i] = cell(f, stored["years"][i])

IsScrapped == pc = "scrapped"

\* a page task of the stock at position i raised
SomePageFailed(i) ==
    \E p \in DOMAIN scrapped_pages[i] : scrapped_pages[i][p].state = "exception"

\* entry is the whole stock data of url: its three statements and its price
\* from the pages of that URL, and the profile of its price page
IsStockDataOf(entry, url) ==
    /\ entry.state = "stock_data"
    /\ entry.income_statement = <<url, "income-statement">>
    /\ entry.balance_sheet = <<url, "balance-sheet">>
    /\ entry.cash_flow_statement = <<url, "cash-flow-statement">>
    /\ entry.price = <<url, "stock-price-history">>
    /\ entry.sector = url /\ entry.industry = url /\ entry.description = url

\* C30: scrap_multiple_stocks returns one entry per URL, in the order of the
\* URLs whatever the order the tasks ended in; the entry of a stock with a failed
\* page is an exception, every other entry is an exception or the whole stock
\* data of its URL, and a stock whose four pages were parsed in full has its
\* stock data whatever became of the other stocks
C30_ResultsAlignedFailuresIsolated ==
    IsScrapped =>
        /\ Len(scrapped_data) = Len(stock_main_page_urls)
        /\ \A i \in DOMAIN stock_main_page_urls :
              /\ SomePageFailed(i) => scrapped_data[i].state = "exception"
              /\ scrapped_data[i].state # "exception"
                    => IsStockDataOf(scrapped_data[i], stock_main_page_urls[i])
              /\ (\A p \in DOMAIN scrapped_pages[i] : scrapped_pages[i][p].state = "parsed")
                    /\ scrapped_pages[i][Len(all_endpoints)].profile
                    => IsStockDataOf(scrapped_data[i], stock_main_page_urls[i])

\* the second stock was done first and the balance sheet of the first could not
\* be fetched: an exception at the first position, the second stock's data at
\* the second
C30_Witness ==
    /\ IsScrapped
    /\ stock_main_page_urls = <<"stocks/AAA", "stocks/BBB">>
    /\ finished = <<2, 1>>
    /\ scrapped_pages[1][2].state = "exception"
    /\ scrapped_pages[1][1].state = "parsed"
    /\ scrapped_data[1] = exception("BaseError")
    /\ IsStockDataOf(scrapped_data[2], "stocks/BBB")

=============================================================================
